---------------------------- MODULE Spec2Model ----------------------------
(***************************************************************************)
(* Model of the a11y-tree compressor (Cassidy777/Compressed_a11y).         *)
(*                                                                         *)
(* Strings are modelled as finite sequences of atoms.  An atom is either   *)
(* one whitespace character (" ", "\t", "\n"), one punctuation character   *)
(* ("(", ")", ","), a run of decimal digits ("10") or an indivisible word  *)
(* ("paragraph").  The empty string is << >>.  Every string operation of   *)
(* the source (strip, split, join, startswith, lower, the COORD_RE regular *)
(* expression) is computed on these sequences the way Python computes it   *)
(* on characters.                                                          *)
(***************************************************************************)
EXTENDS Integers, Sequences, FiniteSets, TLC

VARIABLES
    \* ---- parse_raw_a11y (a11y_utils.py) ----
    lines,              \* the lines of text.splitlines() consumed so far
    nodes,              \* the list of Elements built so far
    last_node,          \* index in nodes of last_node, 0 for None
    pending_para_line,  \* << >> for None, <<line>> for a buffered paragraph row
    pc,                 \* "loop", "done" (returned) or "raised"
    hist,               \* per consumed line: which branch of the loop body ran
    origin              \* per Element: index in lines of the row that opened it

parseVars == <<lines, nodes, last_node, pending_para_line, pc, hist, origin>>

VARIABLES
    \* ---- detect_domain_and_scores (domain_detector.py) ----
    elements,           \* the node list handed to the scorer
    lastKind,           \* index in ScoreInputs of the node added last
    dpc,                \* "build", "returned" or "raised"
    dresult             \* the (domain, scores) pair returned

scoreVars == <<elements, lastKind, dpc, dresult>>

VARIABLES
    \* ---- the plug-ins' split, region and modal hooks (domains/*.py) ----
    screen,             \* [w, h]: the screen size handed to the hooks
    plugin,             \* domain_name of the plug-in whose hooks run
    enodes,             \* the node list handed to the hook; a node's identity
                        \* (Python's id(n)) is its index in this list
    ecls,               \* per node: the region key the plug-in's dry-run
                        \* classification gave it ("-" for none)
    elastKind,          \* index in EngineInputs of the node added last
    epc,                \* "build", then the name of the hook that returned
    edyn,               \* split_static_ui: the dynamic list (node indices)
    estatic,            \* split_static_ui: the static list (node indices)
    eregions,           \* get_semantic_regions: region key -> node indices
    etags,              \* per node: its tag after get_semantic_regions
    emodal,             \* the modal list (node indices)
    ebg,                \* the background list (node indices)
    edet                \* the detectors that have run, in order

\* ThunderbirdCompressor: the instances' view-smoothing state, the views and
\* the suppression decisions of the calls made on each instance, and the
\* arguments and the result of the last _build_output call
VARIABLES tbInst, tbViews, tbSupp, tbCall, tbLines, tbpc

engineVars == <<screen, plugin, enodes, ecls, elastKind, epc, edyn, estatic,
                eregions, etags, emodal, ebg, edet>>

\* _build_output of the plug-ins: the plug-in called, the view (Thunderbird),
\* the headers whose condition holds, and the headers of the output
VARIABLES hplugin, hview, hhas, hout, hpc

hdrVars == <<hplugin, hview, hhas, hout, hpc>>

\* OSCompressor: the serializer called, the nodes of the region, and the
\* lines of the first and of the second call
VARIABLES oser, onodes, olines, oagain, omodal, opc

osVars == <<oser, onodes, olines, oagain, omodal, opc>>

tbVars == <<tbInst, tbViews, tbSupp, tbCall, tbLines, tbpc>>

\* get_semantic_regions of the GIMP and of the Thunderbird plug-in: the
\* plug-in, the screen, the nodes, the region of each node, and the factor
\* and the regions of a second call on the same screen at another resolution
VARIABLES rplugin, rscreen, rnodes, rbase, rfactor, rscaled, rpc

regVars == <<rplugin, rscreen, rnodes, rbase, rfactor, rscaled, rpc>>

\* the geometry helpers of domain_detector.py: the raws handed to
\* _extract_xy_from_raw with what it returned, and what
\* _estimate_screen_size returned for the nodes of these raws
VARIABLES graws, gxy, gsize, gpc

geoVars == <<graws, gxy, gsize, gpc>>

vars ==
    <<parseVars, scoreVars, engineVars, tbVars, hdrVars, osVars, regVars, geoVars>>

\* what a step of one component leaves alone
outsideParse ==
    <<scoreVars, engineVars, tbVars, hdrVars, osVars, regVars, geoVars>>

outsideScore ==
    <<parseVars, engineVars, tbVars, hdrVars, osVars, regVars, geoVars>>

outsideEngine ==
    <<parseVars, scoreVars, tbVars, hdrVars, osVars, regVars, geoVars>>

outsideTb ==
    <<parseVars, scoreVars, engineVars, hdrVars, osVars, regVars, geoVars>>

outsideHdr ==
    <<parseVars, scoreVars, engineVars, tbVars, osVars, regVars, geoVars>>

outsideOs ==
    <<parseVars, scoreVars, engineVars, tbVars, hdrVars, regVars, geoVars>>

outsideReg ==
    <<parseVars, scoreVars, engineVars, tbVars, hdrVars, osVars, geoVars>>

outsideGeo ==
    <<parseVars, scoreVars, engineVars, tbVars, hdrVars, osVars, regVars>>

---------------------------------------------------------------------------
(* Bounds of the model *)

MaxLines == 3

MaxNodes == 5

\* nodes handed to the Chrome plug-in's hooks
MaxElems == 4

\* nodes handed to split_static_ui of the other plug-ins
MaxClassified == 3

\* _build_output calls made on the two ThunderbirdCompressor instances together
MaxCalls == 4

\* nodes of a region of the OS plug-in
MaxItems == 3

\* nodes handed to get_semantic_regions of the GIMP and Thunderbird plug-ins
MaxScaled == 3

\* the largest factor a screen is scaled by
MaxFactor == 2

\* raws handed to the geometry helpers
MaxRaws == 2

---------------------------------------------------------------------------
(* Python string primitives on atom sequences *)

WHITESPACE == {" ", "\t", "\n"}

\* the decimal numerals that occur in the inputs, with their values
NumeralValue ==
    [d \in {"0", "1", "2", "10", "60", "70", "100", "200", "300", "1700"} |->
        CASE d = "0" -> 0 [] d = "1" -> 1 [] d = "2" -> 2 [] d = "10" -> 10
          [] d = "60" -> 60 [] d = "70" -> 70 [] d = "100" -> 100
          [] d = "200" -> 200 [] d = "300" -> 300 [] d = "1700" -> 1700]

DIGITS == DOMAIN NumeralValue

IsSpace(c) == c \in WHITESPACE

IsDigit(c) == c \in DIGITS

RECURSIVE lstrip(_)
lstrip(s) == IF s # << >> /\ IsSpace(Head(s)) THEN lstrip(Tail(s)) ELSE s

RECURSIVE rstrip(_)
rstrip(s) ==
    IF s # << >> /\ IsSpace(s[Len(s)]) THEN rstrip(SubSeq(s, 1, Len(s) - 1)) ELSE s

strip(s) == rstrip(lstrip(s))

startswith(s, p) == Len(s) >= Len(p) /\ SubSeq(s, 1, Len(p)) = p

RECURSIVE split(_, _)
split(s, sep) ==
    IF \E i \in 1..Len(s) : s[i] = sep
    THEN LET i == CHOOSE k \in 1..Len(s) :
                      s[k] = sep /\ \A j \in 1..(k - 1) : s[j] # sep
         IN  <<SubSeq(s, 1, i - 1)>> \o split(SubSeq(s, i + 1, Len(s)), sep)
    ELSE <<s>>

RECURSIVE join(_, _)
join(sep, xs) ==
    IF xs = << >> THEN << >>
    ELSE IF Len(xs) = 1 THEN xs[1]
    ELSE xs[1] \o sep \o join(sep, Tail(xs))

lowerAtom(c) ==
    CASE c = "Tag" -> "tag"
      [] c = "TAG" -> "tag"
      [] c = "GNU" -> "gnu"
      [] c = "Image" -> "image"
      [] c = "Manipulation" -> "manipulation"
      [] c = "Program" -> "program"
      [] c = "Layer" -> "layer"
      [] c = "Colors" -> "colors"
      [] c = "File" -> "file"
      [] c = "Edit" -> "edit"
      [] c = "Filters" -> "filters"
      [] c = "Files" -> "files"
      [] c = "Slide" -> "slide"
      [] c = "Styles" -> "styles"
      [] c = "Visual" -> "visual"
      [] c = "Studio" -> "studio"
      [] c = "Code" -> "code"
      [] c = "GIMP" -> "gimp"
      [] c = "Accept" -> "accept"
      [] c = "We" -> "we"
      [] c = "Cookie" -> "cookie"
      [] c = "Settings" -> "settings"
      [] c = "Close" -> "close"
      [] c = "Reload" -> "reload"
      [] c = "Address" -> "address"
      [] c = "New" -> "new"
      [] c = "Tab" -> "tab"
      [] c = "Options" -> "options"
      [] c = "Ready" -> "ready"
      [] c = "Home" -> "home"
      [] c = "Resources" -> "resources"
      [] c = "About" -> "about"
      [] c = "Mozilla" -> "mozilla"
      [] c = "Thunderbird" -> "thunderbird"
      [] c = "OK" -> "ok"
      [] c = "Saved" -> "saved"
      [] c = "Activities" -> "activities"
      [] c = "AM" -> "am"
      [] c = "Rename" -> "rename"
      [] c = "Authentication" -> "authentication"
      [] c = "Required" -> "required"
      [] c = "Password" -> "password"
      [] c = "Done" -> "done"
      [] c = "Inbox" -> "inbox"
      [] OTHER -> c

lower(s) == [i \in 1..Len(s) |-> lowerAtom(s[i])]

\* s contains p as a substring (Python's `p in s`)
contains(s, p) ==
    \E i \in 0..(Len(s) - Len(p)) : SubSeq(s, i + 1, i + Len(p)) = p

---------------------------------------------------------------------------
(* a11y_utils.py: constants *)

KNOWN_TAGS ==
    {"label", "text", "static", "push-button", "check-box", "radio-button",
     "combo-box", "spin-button", "menu", "menu-item", "entry", "heading",
     "toggle-button", "link", "table-cell", "paragraph", "image",
     "scroll-bar", "list-item", "document-presentation", "document-frame",
     "terminal"}

\* mutant of InKnownTags: the vocabulary is never consulted
InKnownTags_unchecked(tag) == TRUE

\* `tag in KNOWN_TAGS` for a string tag
InKnownTags(tag) == Len(tag) = 1 /\ tag[1] \in KNOWN_TAGS

RECURSIVE SkipSpaces(_, _)
SkipSpaces(s, i) ==
    IF i <= Len(s) /\ IsSpace(s[i]) THEN SkipSpaces(s, i + 1) ELSE i

RECURSIVE SkipDigits(_, _)
SkipDigits(s, i) ==
    IF i <= Len(s) /\ IsDigit(s[i]) THEN SkipDigits(s, i + 1) ELSE i

\* COORD_RE = \(\s*\d+,\s*\d+\s*\) matched at position i of s
COORD_RE_at(s, i) ==
    /\ i <= Len(s)
    /\ s[i] = "("
    /\ LET a == SkipSpaces(s, i + 1)
           b == SkipDigits(s, a)
       IN  /\ b > a
           /\ b <= Len(s)
           /\ s[b] = ","
           /\ LET c == SkipSpaces(s, b + 1)
                  d == SkipDigits(s, c)
                  e == SkipSpaces(s, d)
              IN  /\ d > c
                  /\ e <= Len(s)
                  /\ s[e] = ")"

COORD_RE_match(s) == COORD_RE_at(s, 1)

COORD_RE_search(s) == \E i \in 1..Len(s) : COORD_RE_at(s, i)


---------------------------------------------------------------------------
(* a11y_utils.py: parse_raw_a11y, one iteration of the loop per action *)

TAB == <<"\t">>

\* Python's parts[i] (i counted from 0); ok = FALSE stands for IndexError
Item(parts, i) ==
    IF i < Len(parts) THEN [ok |-> TRUE, val |-> parts[i + 1]]
    ELSE [ok |-> FALSE, val |-> << >>]

\* mutant of ColOrEmpty: the length guard is missing
ColOrEmpty_unguarded(parts, i) ==
    LET x == Item(parts, i) IN [ok |-> x.ok, val |-> strip(x.val)]

\* parts[i].strip() if len(parts) > i else ""
ColOrEmpty(parts, i) ==
    IF Len(parts) > i
    THEN LET x == Item(parts, i) IN [ok |-> x.ok, val |-> strip(x.val)]
    ELSE [ok |-> TRUE, val |-> << >>]

Element(tag, name, text, description, role, states, raw) ==
    [tag |-> tag, name |-> name, text |-> text, description |-> description,
     role |-> role, states |-> states, raw |-> raw]

\* original_line.rstrip("\n")
rstrip_newline(s) ==
    LET RECURSIVE R(_)
        R(t) == IF t # << >> /\ t[Len(t)] = "\n"
                THEN R(SubSeq(t, 1, Len(t) - 1)) ELSE t
    IN  R(s)

\* lines 41-48: blank lines and header lines are skipped
IsBlank(line) == strip(line) = << >>

IsHeader(line) ==
    LET stripped == strip(line)
    IN  \/ startswith(stripped, <<"LINEAR", " ", "AT:">>)
        \/ startswith(stripped, <<"PROPERTY:">>)
        \/ startswith(stripped, <<"tag", "\t", "name", "\t">>)

Skipped(line) == IsBlank(line) \/ IsHeader(line)

\* mutant of MergeQualifies: no coordinate pair is asked of the joined row
MergeQualifies_without_coordinates(pending, line) ==
    LET combined == pending \o TAB \o strip(line)
        combined_parts == split(combined, "\t")
        combined_tag == strip(combined_parts[1])
    IN  /\ Len(combined_parts) >= 5
        /\ InKnownTags(combined_tag)

\* lines 57-66: does pending + "\t" + stripped make a complete row?
MergeQualifies(pending, line) ==
    LET combined == pending \o TAB \o strip(line)
        combined_parts == split(combined, "\t")
        combined_tag == strip(combined_parts[1])
    IN  /\ Len(combined_parts) >= 5
        /\ InKnownTags(combined_tag)
        /\ COORD_RE_search(combined)

\* lines 76-89 and 218-230: the standalone Element of a pending paragraph row
PendingNode(pending) ==
    LET tmp_parts == split(pending, "\t")
        p_tag == Item(tmp_parts, 0)
        p_name == ColOrEmpty(tmp_parts, 1)
        p_text == ColOrEmpty(tmp_parts, 2)
    IN  [ok |-> p_tag.ok /\ p_name.ok /\ p_text.ok,
         node |-> Element(strip(p_tag.val), p_name.val, p_text.val,
                          << >>, << >>, << >>, strip(pending))]

\* index in lines of the row held in pending_para_line
PendingIdx ==
    CHOOSE i \in 1..Len(hist) :
        hist[i].act = "buffer" /\ \A j \in (i + 1)..Len(hist) : hist[j].act = "skip"

\* lines 50-93: the state of the iteration when it reaches line 100
AfterPending(line) ==
    LET stripped == strip(line)
        parts == split(line, "\t")
        here == Len(lines) + 1
    IN  IF pending_para_line = << >>
        THEN [parts |-> parts, original_line |-> line, stripped |-> stripped,
              tag_candidate |-> strip(parts[1]),
              nodes |-> nodes, last_node |-> last_node, origin |-> origin,
              ok |-> TRUE, pend |-> "none", row |-> here]
        ELSE LET pending == pending_para_line[1]
                 combined == pending \o TAB \o stripped
                 combined_parts == split(combined, "\t")
             IN  IF MergeQualifies(pending, line)
                 THEN [parts |-> combined_parts, original_line |-> combined,
                       stripped |-> strip(combined),
                       tag_candidate |-> strip(combined_parts[1]),
                       nodes |-> nodes, last_node |-> last_node,
                       origin |-> origin,
                       ok |-> TRUE, pend |-> "merge", row |-> PendingIdx]
                 ELSE LET p == PendingNode(pending)
                      IN  [parts |-> parts, original_line |-> line,
                           stripped |-> stripped,
                           tag_candidate |-> strip(parts[1]),
                           nodes |-> Append(nodes, p.node),
                           last_node |-> Len(nodes) + 1,
                           origin |-> Append(origin, PendingIdx),
                           ok |-> p.ok, pend |-> "flush", row |-> here]

\* mutant of is_well_formed: the column test is off by one
is_well_formed_off_by_one(parts, tag_candidate) ==
    Len(parts) > 5 /\ InKnownTags(tag_candidate)

\* lines 103-106
is_well_formed(parts, tag_candidate) ==
    Len(parts) >= 5 /\ InKnownTags(tag_candidate)

\* lines 116-129: the standalone Element of an incomplete known-tag row
IncompleteNode(cur) ==
    LET name == ColOrEmpty(cur.parts, 1)
        text_val == ColOrEmpty(cur.parts, 2)
        desc == ColOrEmpty(cur.parts, 3)
        role == ColOrEmpty(cur.parts, 4)
    IN  [ok |-> name.ok /\ text_val.ok /\ desc.ok /\ role.ok,
         node |-> Element(cur.tag_candidate, name.val, text_val.val,
                          desc.val, role.val, << >>, cur.stripped)]

\* lines 188-192
StatesOf(parts) ==
    IF Len(parts) > 7
    THEN LET raw_states == strip(parts[8])
             pieces == split(raw_states, ",")
         IN  IF raw_states # << >>
             THEN [i \in 1..Len(pieces) |-> strip(pieces[i])]
             ELSE << >>
    ELSE << >>

IsParaOrTerminal(tag) == tag \in {<<"paragraph">>, <<"terminal">>}

\* mutant of WellFormedNode: the description is not folded into the text
WellFormedNode_no_overflow(cur) ==
    LET name == ColOrEmpty(cur.parts, 1)
        text0 == ColOrEmpty(cur.parts, 2)
        desc0 == ColOrEmpty(cur.parts, 3)
        role == ColOrEmpty(cur.parts, 4)
    IN  [ok |-> name.ok /\ text0.ok /\ desc0.ok /\ role.ok,
         node |-> Element(cur.tag_candidate, name.val, text0.val, desc0.val,
                          role.val, StatesOf(cur.parts),
                          rstrip_newline(cur.original_line))]

\* lines 182-210: the Element of a complete row
WellFormedNode(cur) ==
    LET name == ColOrEmpty(cur.parts, 1)
        text0 == ColOrEmpty(cur.parts, 2)
        desc0 == ColOrEmpty(cur.parts, 3)
        role == ColOrEmpty(cur.parts, 4)
        overflow == IsParaOrTerminal(cur.tag_candidate) /\ desc0.val # << >>
        text_val == IF overflow
                    THEN IF text0.val # << >>
                         THEN strip(text0.val \o <<" ">> \o desc0.val)
                         ELSE desc0.val
                    ELSE text0.val
        desc == IF overflow THEN << >> ELSE desc0.val
    IN  [ok |-> name.ok /\ text0.ok /\ desc0.ok /\ role.ok,
         node |-> Element(cur.tag_candidate, name.val, text_val, desc, role.val,
                          StatesOf(cur.parts), rstrip_newline(cur.original_line))]

\* lines 136-146: the stripped non-empty columns, by COORD_RE.match
StrippedCols(parts) ==
    SelectSeq([i \in 1..Len(parts) |-> strip(parts[i])], LAMBDA c : c # << >>)

coord_cols(parts) == SelectSeq(StrippedCols(parts), COORD_RE_match)

text_cols(parts) ==
    SelectSeq(StrippedCols(parts), LAMBDA c : ~COORD_RE_match(c))

\* mutant of ContinuedNode: the coordinate columns are added to raw after a
\* space
ContinuedNode_coordinates_after_space(n, parts) ==
    LET merged == strip(join(<<" ">>, text_cols(parts)))
        coords == coord_cols(parts)
        sep == IF IsParaOrTerminal(n.tag) THEN <<"\n">> ELSE <<" ">>
        withRaw(m) == IF coords # << >>
                      THEN [m EXCEPT !.raw = m.raw \o <<" ">> \o join(TAB, coords)]
                      ELSE m
    IN  IF merged = << >>
        THEN withRaw(n)
        ELSE IF n.text # << >>
        THEN withRaw([n EXCEPT !.text = strip(n.text \o sep \o merged)])
        ELSE IF IsParaOrTerminal(n.tag)
        THEN withRaw([n EXCEPT !.text = merged])
        ELSE withRaw([n EXCEPT !.name = strip(n.name \o sep \o merged)])

\* mutant of ContinuedNode: the separator is a space for every tag
ContinuedNode_space_for_every_tag(n, parts) ==
    LET merged == strip(join(<<" ">>, text_cols(parts)))
        coords == coord_cols(parts)
        sep == <<" ">>
        withRaw(m) == IF coords # << >>
                      THEN [m EXCEPT !.raw = m.raw \o TAB \o join(TAB, coords)]
                      ELSE m
    IN  IF merged = << >>
        THEN withRaw(n)
        ELSE IF n.text # << >>
        THEN withRaw([n EXCEPT !.text = strip(n.text \o sep \o merged)])
        ELSE IF IsParaOrTerminal(n.tag)
        THEN withRaw([n EXCEPT !.text = merged])
        ELSE withRaw([n EXCEPT !.name = strip(n.name \o sep \o merged)])

\* lines 148-174: last_node after a continuation line is folded into it
ContinuedNode(n, parts) ==
    LET merged == strip(join(<<" ">>, text_cols(parts)))
        coords == coord_cols(parts)
        sep == IF IsParaOrTerminal(n.tag) THEN <<"\n">> ELSE <<" ">>
        withRaw(m) == IF coords # << >>
                      THEN [m EXCEPT !.raw = m.raw \o TAB \o join(TAB, coords)]
                      ELSE m
    IN  IF merged = << >>
        THEN withRaw(n)
        ELSE IF n.text # << >>
        THEN withRaw([n EXCEPT !.text = strip(n.text \o sep \o merged)])
        ELSE IF IsParaOrTerminal(n.tag)
        THEN withRaw([n EXCEPT !.text = merged])
        ELSE withRaw([n EXCEPT !.name = strip(n.name \o sep \o merged)])

---------------------------------------------------------------------------
(* Input lines the model feeds to parse_raw_a11y *)

Row(cols) == join(TAB, cols)

XY == <<"(", "1", ",", "2", ")">>

WH == <<"(", "10", ",", " ", "200", ")">>

LineSet ==
    { Row(<< <<"push-button">>, <<"OK">>, << >>, << >>, << >>, XY, WH, << >> >>),
      Row(<< <<"label">>, <<"a">>, <<"b">>, <<"c">>, <<"d">> >>),
      Row(<< <<" ", "label">>, <<"a">>, << >>, << >>, << >>, XY >>),
      Row(<< <<"paragraph">>, <<"Note">>, <<"body">>, <<"more">>, <<"r">>, XY >>),
      Row(<< <<"paragraph">>, <<"Note">> >>),
      Row(<< <<"paragraph">>, <<"Note">>, <<"body">>, <<"d2">> >>),
      Row(<< <<"terminal">>, <<"t">>, <<"out">>, <<"d">>, << >> >>),
      Row(<< <<"terminal">>, <<"t">> >>),
      Row(<< <<"terminal">>, <<"t">>, <<"out">>, <<"d">> >>),
      Row(<< <<"menu">>, <<"File">> >>),
      Row(<< << >>, << >>, << >>, << >>, << >>, XY, WH, << >> >>),
      Row(<< <<"more", " ", "text">> >>),
      Row(<< <<"x">>, XY >>),
      Row(<< <<" ">>, << >> >>),
      Row(<< <<"PROPERTY:">>, <<"x">> >>),
      Row(<< <<"Tag">>, <<"x">> >>) }

---------------------------------------------------------------------------
(* parse_raw_a11y: the actions *)

ParseInit ==
    /\ lines = << >>
    /\ nodes = << >>
    /\ last_node = 0
    /\ pending_para_line = << >>
    /\ pc = "loop"
    /\ hist = << >>
    /\ origin = << >>

CanRead == pc = "loop" /\ Len(lines) < MaxLines

Consume(line, pend, act, ok) ==
    /\ lines' = Append(lines, line)
    /\ hist' = Append(hist, [pend |-> pend, act |-> act])
    /\ pc' = IF ok THEN "loop" ELSE "raised"
    /\ UNCHANGED outsideParse

\* lines 41-48: `continue` on a blank or header line
ReadSkipped ==
    \E line \in LineSet :
        /\ CanRead
        /\ Skipped(line)
        /\ Consume(line, "none", "skip", TRUE)
        /\ UNCHANGED <<nodes, last_node, pending_para_line, origin>>

\* lines 100-101: `continue` on a row whose tag is the literal "tag"
ReadTagRow ==
    \E line \in LineSet :
        /\ CanRead
        /\ ~Skipped(line)
        /\ LET cur == AfterPending(line)
           IN  /\ lower(cur.tag_candidate) = <<"tag">>
               /\ Consume(line, cur.pend, "tagrow", cur.ok)
               /\ nodes' = cur.nodes
               /\ last_node' = cur.last_node
               /\ origin' = cur.origin
               /\ pending_para_line' = << >>

\* lines 108-112: an incomplete paragraph row is buffered
ReadBuffered ==
    \E line \in LineSet :
        /\ CanRead
        /\ ~Skipped(line)
        /\ LET cur == AfterPending(line)
           IN  /\ lower(cur.tag_candidate) # <<"tag">>
               /\ ~is_well_formed(cur.parts, cur.tag_candidate)
               /\ cur.tag_candidate = <<"paragraph">>
               /\ Consume(line, cur.pend, "buffer", cur.ok)
               /\ nodes' = cur.nodes
               /\ last_node' = cur.last_node
               /\ origin' = cur.origin
               /\ pending_para_line' = <<cur.original_line>>

\* lines 114-132: an incomplete row of another known tag is emitted as it is
ReadIncomplete ==
    \E line \in LineSet :
        /\ CanRead
        /\ ~Skipped(line)
        /\ LET cur == AfterPending(line)
               new == IncompleteNode(cur)
           IN  /\ lower(cur.tag_candidate) # <<"tag">>
               /\ ~is_well_formed(cur.parts, cur.tag_candidate)
               /\ cur.tag_candidate # <<"paragraph">>
               /\ InKnownTags(cur.tag_candidate)
               /\ Consume(line, cur.pend, "incomplete", cur.ok /\ new.ok)
               /\ nodes' = Append(cur.nodes, new.node)
               /\ last_node' = Len(cur.nodes) + 1
               /\ origin' = Append(cur.origin, cur.row)
               /\ pending_para_line' = << >>

\* lines 134-176: a row without a known tag continues the last Element,
\* or is dropped when there is none
ReadContinuation ==
    \E line \in LineSet :
        /\ CanRead
        /\ ~Skipped(line)
        /\ LET cur == AfterPending(line)
           IN  /\ lower(cur.tag_candidate) # <<"tag">>
               /\ ~is_well_formed(cur.parts, cur.tag_candidate)
               /\ ~InKnownTags(cur.tag_candidate)
               /\ Consume(line, cur.pend,
                          IF cur.last_node = 0 THEN "dropped" ELSE "continuation",
                          cur.ok)
               /\ nodes' = IF cur.last_node = 0 THEN cur.nodes
                           ELSE [cur.nodes EXCEPT ![cur.last_node] =
                                    ContinuedNode(cur.nodes[cur.last_node], cur.parts)]
               /\ last_node' = cur.last_node
               /\ origin' = cur.origin
               /\ pending_para_line' = << >>

\* lines 178-212: a complete row becomes an Element
ReadWellFormed ==
    \E line \in LineSet :
        /\ CanRead
        /\ ~Skipped(line)
        /\ LET cur == AfterPending(line)
               new == WellFormedNode(cur)
           IN  /\ lower(cur.tag_candidate) # <<"tag">>
               /\ is_well_formed(cur.parts, cur.tag_candidate)
               /\ Consume(line, cur.pend, "wellformed", cur.ok /\ new.ok)
               /\ nodes' = Append(cur.nodes, new.node)
               /\ last_node' = Len(cur.nodes) + 1
               /\ origin' = Append(cur.origin, cur.row)
               /\ pending_para_line' = << >>

\* mutant of EndOfInput: the pending row is not flushed
EndOfInput_no_flush ==
    /\ pc = "loop"
    /\ pc' = "done"
    /\ UNCHANGED <<lines, nodes, last_node, pending_para_line, hist, origin>>
    /\ UNCHANGED outsideParse

\* lines 214-233: the loop ends, a pending row is flushed, nodes is returned
EndOfInput ==
    /\ pc = "loop"
    /\ IF pending_para_line # << >>
       THEN LET p == PendingNode(pending_para_line[1])
            IN  /\ nodes' = Append(nodes, p.node)
                /\ origin' = Append(origin, PendingIdx)
                /\ pc' = IF p.ok THEN "done" ELSE "raised"
       ELSE /\ pc' = "done"
            /\ UNCHANGED <<nodes, origin>>
    /\ UNCHANGED <<lines, last_node, pending_para_line, hist>>
    /\ UNCHANGED outsideParse

ParseNext ==
    \/ ReadSkipped
    \/ ReadTagRow
    \/ ReadBuffered
    \/ ReadIncomplete
    \/ ReadContinuation
    \/ ReadWellFormed
    \/ EndOfInput

\* parse_raw_a11y is not running
ParseIdle ==
    /\ lines = << >>
    /\ nodes = << >>
    /\ last_node = 0
    /\ pending_para_line = << >>
    /\ pc = "idle"
    /\ hist = << >>
    /\ origin = << >>

---------------------------------------------------------------------------
(* Claims about parse_raw_a11y (checked under SpecParse) *)

\* the rows of the input: its lines that are neither blank nor headers,
\* and where each stands in lines
RowIdx == {i \in 1..Len(lines) : ~(IsBlank(lines[i]) \/ IsHeader(lines[i]))}

RowNo(i) == Cardinality({j \in RowIdx : j <= i})

\* a row is well-formed: at least 5 columns and a first column in KNOWN_TAGS
WellFormedRow(line) ==
    LET cols == split(line, "\t")
    IN  Len(cols) >= 5 /\ Len(strip(cols[1])) = 1 /\ strip(cols[1])[1] \in KNOWN_TAGS

AllRowsWellFormed == \A i \in RowIdx : WellFormedRow(lines[i])

\* C1: when every non-blank, non-header row is well-formed, the result has
\* exactly one Element per row, in row order: the k-th Element is built from
\* the k-th row alone (its raw is that row, its tag and name are that row's).
C1_RoundTrip ==
    (pc = "done" /\ AllRowsWellFormed) =>
        /\ Len(nodes) = Cardinality(RowIdx)
        /\ \A i \in RowIdx :
              LET cols == split(lines[i], "\t")
                  e == nodes[RowNo(i)]
              IN  /\ e.raw = lines[i]
                  /\ e.tag = strip(cols[1])
                  /\ e.name = strip(cols[2])
                  /\ origin[RowNo(i)] = i

C1_Witness ==
    /\ pc = "done"
    /\ AllRowsWellFormed
    /\ Cardinality(RowIdx) = 2
    /\ Len(lines) = 3
    /\ \E i \in RowIdx : strip(split(lines[i], "\t")[1]) = <<"paragraph">>

\* C2: parse_raw_a11y never raises, and what it builds is a list of
\* Elements with at most one Element per row; a malformed row at worst
\* contributes none.
IsElement(e) ==
    DOMAIN e = {"tag", "name", "text", "description", "role", "states", "raw"}

C2_NeverRaises ==
    /\ pc \in {"loop", "done"}
    /\ \A k \in 1..Len(nodes) : IsElement(nodes[k])
    /\ Len(nodes) <= Cardinality(RowIdx)

C2_Witness ==
    /\ pc = "done"
    /\ Len(lines) = MaxLines
    /\ \E i \in 1..Len(hist) : hist[i].act = "dropped"
    /\ \E i \in 1..Len(hist) : hist[i].act = "incomplete"
    /\ Len(nodes) < Cardinality(RowIdx)

\* C3: every Element has a non-empty tag.
C3_NonEmptyTag == \A k \in 1..Len(nodes) : nodes[k].tag # << >>

C3_Witness ==
    /\ pc = "done"
    /\ Len(nodes) = 3
    /\ \E i \in 1..Len(hist) : hist[i].pend = "flush" /\ hist[i].act = "incomplete"
    /\ hist[Len(hist)].act = "buffer"

\* the state right after an iteration that merged the pending row with the
\* row just read
JustMerged == pc = "loop" /\ hist # << >> /\ hist[Len(hist)].pend = "merge"

MergedElement == nodes[Len(nodes)]

MergedPendingRow == lines[origin[Len(nodes)]]

MergedNextRow == lines[Len(lines)]

ElementsOfMergedRows ==
    {k \in 1..Len(nodes) : origin[k] \in {origin[Len(nodes)], Len(lines)}}

\* C4 as stated: the merged Element's text contains the text of both rows
\* (the pending row's text column, and every non-coordinate column of the
\* row that completed it).
C4_AsStated ==
    JustMerged =>
        /\ Cardinality(ElementsOfMergedRows) = 1
        /\ contains(MergedElement.text,
                    ColOrEmpty(split(MergedPendingRow, "\t"), 2).val)
        /\ \A c \in {text_cols(split(MergedNextRow, "\t"))[j] :
                        j \in 1..Len(text_cols(split(MergedNextRow, "\t")))} :
              contains(MergedElement.text, c)

\* C4 as amended: a pending paragraph row and the row that completes it
\* produce exactly one Element; its raw is the two rows joined by a tab, and
\* its text is the third column of the joined row with the fourth appended
\* (columns of the second row that fall after the fourth are not in text).
C4_MergeOneElement ==
    JustMerged =>
        LET joined == MergedPendingRow \o TAB \o strip(MergedNextRow)
            cols == split(joined, "\t")
            third == strip(cols[3])
            fourth == strip(cols[4])
        IN  /\ Cardinality(ElementsOfMergedRows) = 1
            /\ Len(nodes) =
                  Cardinality({i \in 1..Len(hist) :
                                hist[i].act \in {"wellformed", "incomplete"}})
                  + Cardinality({i \in 1..Len(hist) : hist[i].pend = "flush"})
            /\ MergedElement.raw = joined
            /\ MergedElement.tag = <<"paragraph">>
            /\ MergedElement.name = strip(cols[2])
            /\ MergedElement.text =
                  IF fourth = << >> THEN third
                  ELSE IF third = << >> THEN fourth
                  ELSE third \o <<" ">> \o fourth
            /\ MergedElement.description = << >>

C4_Witness ==
    /\ JustMerged
    /\ ColOrEmpty(split(MergedPendingRow, "\t"), 2).val # << >>
    /\ text_cols(split(MergedNextRow, "\t")) # << >>
    /\ COORD_RE_search(MergedNextRow)

\* C5: every buffered paragraph row is emitted as exactly one Element by the
\* time parsing ends (and as none while it is still pending); the Element
\* carries the row's tag and name and its raw contains the row.
BufferedIdx == {i \in 1..Len(hist) : hist[i].act = "buffer"}

StillPending(i) == pc = "loop" /\ pending_para_line # << >> /\ i = PendingIdx

C5_PendingEmittedOnce ==
    pc \in {"loop", "done"} =>
        \A i \in BufferedIdx :
            LET ks == {k \in 1..Len(nodes) : origin[k] = i}
            IN  IF StillPending(i) THEN ks = {}
                ELSE /\ Cardinality(ks) = 1
                     /\ \A k \in ks :
                           /\ nodes[k].tag = <<"paragraph">>
                           /\ nodes[k].name = ColOrEmpty(split(lines[i], "\t"), 1).val
                           /\ contains(nodes[k].raw, strip(lines[i]))

C5_Witness ==
    /\ pc = "done"
    /\ Cardinality(BufferedIdx) = 2
    /\ \E i \in 1..Len(hist) : hist[i].pend = "merge"
    /\ hist[Len(hist)].act = "buffer"
    /\ Len(nodes) = 2

---------------------------------------------------------------------------
(* Claims about the rows parse_raw_a11y reads one at a time *)

\* the state right after an iteration of the loop
JustRead == pc = "loop" /\ lines # << >>

LastRow == lines[Len(lines)]

LastElement == nodes[Len(nodes)]

\* the rows that were buffered and not yet taken when the last row was read
PendingMet ==
    {i \in 1..(Len(hist) - 1) :
        /\ hist[i].act = "buffer"
        /\ \A j \in (i + 1)..(Len(hist) - 1) : hist[j].act = "skip"}

\* the last row, joined to the pending row it met, is a complete row with a
\* coordinate pair somewhere
JoinsPending ==
    \E i \in PendingMet :
        LET combined == lines[i] \o TAB \o strip(LastRow)
        IN  Len(split(combined, "\t")) >= 5 /\ COORD_RE_search(combined)

\* the last Element carries the tag and the name of the last row
CarriesLastRow ==
    /\ nodes # << >>
    /\ LastElement.tag = strip(split(LastRow, "\t")[1])
    /\ LastElement.name = strip(split(LastRow, "\t")[2])

ContinuationStep ==
    /\ pc = "loop"
    /\ pc' = "loop"
    /\ Len(hist') = Len(hist) + 1
    /\ hist'[Len(hist')].act = "continuation"

\* the most recently emitted Element when the continuation row is looked
\* at: the pending paragraph row just flushed, or else the last one emitted
OwnerBefore ==
    IF hist'[Len(hist')].pend = "flush"
    THEN PendingNode(pending_para_line[1]).node
    ELSE nodes[last_node]

OwnerAfter == nodes'[last_node']

\* the non-coordinate columns of the row read by the step, space-joined
MergedColumns ==
    LET cols == split(lines'[Len(lines')], "\t")
        kept == SelectSeq([i \in 1..Len(cols) |-> strip(cols[i])],
                          LAMBDA c : c # << >> /\ ~COORD_RE_match(c))
    IN  strip(join(<<" ">>, kept))

\* C22 as stated: the columns go to text after a newline for paragraph and
\* terminal, and to name after a space for every other tag, whose text is
\* left as it was.
C22_AsStated ==
    [][(ContinuationStep /\ MergedColumns # << >>) =>
          IF OwnerBefore.tag \in {<<"paragraph">>, <<"terminal">>}
          THEN OwnerAfter.text =
                  strip(OwnerBefore.text \o <<"\n">> \o MergedColumns)
          ELSE /\ OwnerAfter.name =
                     strip(OwnerBefore.name \o <<" ">> \o MergedColumns)
               /\ OwnerAfter.text = OwnerBefore.text]_vars

\* C22 as amended: an Element that already has text gets the columns
\* appended to its text whatever its tag (after a newline for paragraph and
\* terminal, after a space for the others) and keeps its name; an Element
\* without text gets them as its text when it is a paragraph or terminal,
\* and appended to its name after a space otherwise.
C22_ContinuationMerged ==
    [][(ContinuationStep /\ MergedColumns # << >>) =>
          /\ OwnerAfter.tag = OwnerBefore.tag
          /\ IF OwnerBefore.text # << >>
             THEN /\ OwnerAfter.text =
                        strip(OwnerBefore.text
                              \o (IF OwnerBefore.tag \in
                                        {<<"paragraph">>, <<"terminal">>}
                                  THEN <<"\n">> ELSE <<" ">>)
                              \o MergedColumns)
                  /\ OwnerAfter.name = OwnerBefore.name
             ELSE IF OwnerBefore.tag \in {<<"paragraph">>, <<"terminal">>}
             THEN /\ OwnerAfter.text = MergedColumns
                  /\ OwnerAfter.name = OwnerBefore.name
             ELSE /\ OwnerAfter.name =
                        strip(OwnerBefore.name \o <<" ">> \o MergedColumns)
                  /\ OwnerAfter.text = << >>]_vars

\* a continuation row was appended after a newline to the text of a
\* paragraph or terminal Element
C22_Witness ==
    /\ JustRead
    /\ hist[Len(hist)].act = "continuation"
    /\ nodes[last_node].tag \in {<<"paragraph">>, <<"terminal">>}
    /\ \E k \in 2..(Len(nodes[last_node].text) - 1) :
          nodes[last_node].text[k] = "\n"

\* the row that took the pending row i into a merge, if any
MergedWith(i) ==
    {j \in (i + 1)..Len(hist) :
        /\ hist[i].act = "buffer"
        /\ hist[j].pend = "merge"
        /\ \A m \in (i + 1)..(j - 1) : hist[m].act = "skip"}

\* the row Element k was built from: the row read, or the pending row
\* joined to the row that completed it
RowOfElement(k) ==
    LET i == origin[k]
    IN  IF MergedWith(i) = {} THEN lines[i]
        ELSE LET j == CHOOSE j \in MergedWith(i) : TRUE
             IN  lines[i] \o TAB \o strip(lines[j])

DescriptionColumn(k) == ColOrEmpty(split(RowOfElement(k), "\t"), 3).val

\* C23 as stated: every returned paragraph or terminal Element has an empty
\* description, and the description column of its row, when not empty, is
\* part of its text.
C23_AsStated ==
    pc = "done" =>
        \A k \in 1..Len(nodes) :
            nodes[k].tag \in {<<"paragraph">>, <<"terminal">>} =>
                /\ nodes[k].description = << >>
                /\ DescriptionColumn(k) # << >> =>
                      contains(nodes[k].text, DescriptionColumn(k))

---------------------------------------------------------------------------
(* domain_detector.py: helpers *)

\* Python's dict.get(key, default); a dict is a function on its keys
Get(d, key, default) == IF key \in DOMAIN d THEN d[key] ELSE default

\* Python's s.strip(chars) for a set of one-character atoms
RECURSIVE lstrip_chars(_, _)
lstrip_chars(s, chars) ==
    IF s # << >> /\ Head(s) \in chars THEN lstrip_chars(Tail(s), chars) ELSE s

RECURSIVE rstrip_chars(_, _)
rstrip_chars(s, chars) ==
    IF s # << >> /\ s[Len(s)] \in chars
    THEN rstrip_chars(SubSeq(s, 1, Len(s) - 1), chars) ELSE s

strip_chars(s, chars) == rstrip_chars(lstrip_chars(s, chars), chars)

RECURSIVE DecimalWidth(_)
DecimalWidth(v) == IF v < 10 THEN 1 ELSE 1 + DecimalWidth(v \div 10)

RECURSIVE Pow10(_)
Pow10(k) == IF k = 0 THEN 1 ELSE 10 * Pow10(k - 1)

RECURSIVE DigitsValue(_, _)
DigitsValue(s, acc) ==
    IF s = << >> THEN acc
    ELSE LET v == NumeralValue[Head(s)]
         IN  DigitsValue(Tail(s), acc * Pow10(DecimalWidth(v)) + v)

\* Python's int(s), for a decimal numeral with or without a sign;
\* ok = FALSE stands for ValueError
int(s) ==
    LET t == strip(s)
        signed == t # << >> /\ Head(t) \in {"-", "+"}
        digits == IF signed THEN Tail(t) ELSE t
    IN  IF digits # << >> /\ \A i \in 1..Len(digits) : IsDigit(digits[i])
        THEN [ok |-> TRUE,
              val |-> IF signed /\ Head(t) = "-" THEN 0 - DigitsValue(digits, 0)
                      ELSE DigitsValue(digits, 0)]
        ELSE [ok |-> FALSE, val |-> 0]

endswith(s, p) == Len(s) >= Len(p) /\ SubSeq(s, Len(s) - Len(p) + 1, Len(s)) = p

\* s is "(" ... ")"
Parenthesised(s) == startswith(s, <<"(">>) /\ endswith(s, <<")">>)

\* lines 29-38: the body of the try statement of _extract_xy_from_raw;
\* raised stands for the ValueError of an unpacking or of int()
ExtractXYBody(raw) ==
    LET parts == split(raw, "\t")
    IN  IF Len(parts) < 6 THEN [raised |-> FALSE, x |-> 0, y |-> 0]
        ELSE LET pos == strip(parts[6])
             IN  IF ~Parenthesised(pos) THEN [raised |-> FALSE, x |-> 0, y |-> 0]
                 ELSE LET xy == split(SubSeq(pos, 2, Len(pos) - 1), ",")
                      IN  IF Len(xy) # 2 \/ ~int(xy[1]).ok \/ ~int(xy[2]).ok
                          THEN [raised |-> TRUE, x |-> 0, y |-> 0]
                          ELSE [raised |-> FALSE, x |-> int(xy[1]).val,
                                y |-> int(xy[2]).val]

\* mutant of _extract_xy_from_raw: the except clause is missing
_extract_xy_from_raw_uncaught(raw) ==
    IF raw = << >> \/ ~contains(raw, <<"\t", "(">>)
    THEN [raised |-> FALSE, x |-> 0, y |-> 0]
    ELSE ExtractXYBody(raw)

\* _extract_xy_from_raw, lines 22-40
_extract_xy_from_raw(raw) ==
    IF raw = << >> \/ ~contains(raw, <<"\t", "(">>)
    THEN [raised |-> FALSE, x |-> 0, y |-> 0]
    ELSE IF ExtractXYBody(raw).raised THEN [raised |-> FALSE, x |-> 0, y |-> 0]
    ELSE ExtractXYBody(raw)

\* lines 54-63: w and h from the 7th column of raw; w keeps its value when
\* only h fails to convert
SizeOfRaw(raw) ==
    LET parts == split(raw, "\t")
    IN  IF Len(parts) < 7 THEN [w |-> 0, h |-> 0]
        ELSE LET size == strip(parts[7])
             IN  IF ~Parenthesised(size) THEN [w |-> 0, h |-> 0]
                 ELSE LET wh == split(SubSeq(size, 2, Len(size) - 1), ",")
                      IN  IF Len(wh) # 2 \/ ~int(wh[1]).ok THEN [w |-> 0, h |-> 0]
                          ELSE IF ~int(wh[2]).ok
                          THEN [w |-> int(wh[1]).val, h |-> 0]
                          ELSE [w |-> int(wh[1]).val, h |-> int(wh[2]).val]

\* _estimate_screen_size, lines 43-70; raised stands for an exception of
\* _extract_xy_from_raw that nothing here catches
_estimate_screen_size(ns) ==
    LET raw(i) == Get(ns[i], "raw", << >>)
        max(S) == CHOOSE v \in S : \A u \in S : v >= u
        max_x == max({0} \cup {_extract_xy_from_raw(raw(i)).x + SizeOfRaw(raw(i)).w :
                                 i \in 1..Len(ns)})
        max_y == max({0} \cup {_extract_xy_from_raw(raw(i)).y + SizeOfRaw(raw(i)).h :
                                 i \in 1..Len(ns)})
    IN  [raised |-> \E i \in 1..Len(ns) : _extract_xy_from_raw(raw(i)).raised,
         w |-> IF max_x <= 0 THEN 1920 ELSE max_x,
         h |-> IF max_y <= 0 THEN 1080 ELSE max_y]

RECURSIVE Sum(_)
Sum(s) == IF s = << >> THEN 0 ELSE Head(s) + Sum(Tail(s))

\* the points of a per-node rule, added up over the node list
Count(flags) == Cardinality({i \in DOMAIN flags : flags[i]})

Tag(n) == lower(Get(n, "tag", << >>))

Name(n) == lower(Get(n, "name", << >>))

Text(n) == lower(Get(n, "text", << >>))

\* a phrase of lower-case words as a string: "google chrome"
Phrase(ws) == join(<<" ">>, [i \in 1..Len(ws) |-> <<ws[i]>>])

---------------------------------------------------------------------------
(* domain_detector.py: the per-domain scores *)

ChromeTitle == Phrase(<<"google", "chrome">>)

ChromeAddressBar == Phrase(<<"address", "and", "search", "bar">>)

ChromeTopButtons ==
    {Phrase(<<"search", "tabs">>), Phrase(<<"new", "tab">>),
     Phrase(<<"bookmark", "this", "tab">>), Phrase(<<"side", "panel">>),
     Phrase(<<"you">>), Phrase(<<"new", "chrome", "available">>),
     Phrase(<<"google", "apps">>)}

ChromeBookmarkDialog ==
    {Phrase(<<"bookmark", "name">>), Phrase(<<"folder">>), Phrase(<<"done">>)}

ChromeHomeLinks == {Phrase(<<"gmail">>), Phrase(<<"search", "for", "images">>)}

\* lines 77-115: what one node adds to the chrome score
ChromePoints(n) ==
    LET tag == Tag(n)
        name == Name(n)
    IN  (IF contains(name, ChromeTitle) THEN 15 ELSE 0)
      + (IF tag = <<"entry">> /\ contains(name, ChromeAddressBar) THEN 20 ELSE 0)
      + (IF tag = <<"push-button">> /\ name \in ChromeTopButtons THEN 6 ELSE 0)
      + (IF tag \in {<<"entry">>, <<"push-button">>}
            /\ name \in ChromeBookmarkDialog
         THEN 4 ELSE 0)
      + (IF tag = <<"link">> /\ name \in ChromeHomeLinks THEN 3 ELSE 0)
      + (IF tag = <<"link">> THEN 1 ELSE 0)

\* lines 74-117
_score_chrome(ns) == Sum([i \in 1..Len(ns) |-> ChromePoints(ns[i])])

\* lines 132-143: x and y from the 6th column of raw, (0, 0) when that fails;
\* x keeps its value when only y fails to convert
GimpXY(n) ==
    LET raw == Get(n, "raw", << >>)
        parts == split(raw, "\t")
    IN  IF ~contains(raw, <<"\t", "(">>) \/ Len(parts) < 6
        THEN [x |-> 0, y |-> 0]
        ELSE LET pos == strip_chars(parts[6], {"(", ")"})
                 xy == split(pos, ",")
             IN  IF Len(xy) # 2 THEN [x |-> 0, y |-> 0]
                 ELSE LET x == int(xy[1])
                          y == int(xy[2])
                      IN  IF ~x.ok THEN [x |-> 0, y |-> 0]
                          ELSE IF ~y.ok THEN [x |-> x.val, y |-> 0]
                          ELSE [x |-> x.val, y |-> y.val]

GimpTitle == Phrase(<<"gnu", "image", "manipulation", "program">>)

\* lines 153-187: the lower-case name of a menu in the top menu bar
\* (y between 40 and 90), "" for any other node
MenubarName(n, xy) ==
    IF Tag(n) = <<"menu">> /\ 40 <= xy.y /\ xy.y <= 90 THEN Name(n) ELSE << >>

\* lines 145-193: what one node adds to the raw gimp score
GimpPoints(n, xy) ==
    LET bar == MenubarName(n, xy)
    IN  (IF contains(Name(n), GimpTitle) \/ contains(Text(n), GimpTitle)
         THEN 20 ELSE 0)
      + (CASE bar = <<"file">> -> 2
           [] bar = <<"edit">> -> 2
           [] bar = <<"image">> -> 8
           [] bar = <<"layer">> -> 8
           [] bar = <<"colors">> -> 8
           [] bar = <<"filters">> -> 5
           [] OTHER -> 0)
      + (IF xy.x > 1650 THEN 1 ELSE 0)

\* mutant of _score_gimp: any one of the three menus opens the gate
_score_gimp_any_of_triad(ns) ==
    LET xy == [i \in 1..Len(ns) |-> GimpXY(ns[i])]
        bars == {MenubarName(ns[i], xy[i]) : i \in 1..Len(ns)}
        score == Sum([i \in 1..Len(ns) |-> GimpPoints(ns[i], xy[i])])
        has_image == <<"image">> \in bars
        has_layer == <<"layer">> \in bars
        has_colors == <<"colors">> \in bars
        has_file == <<"file">> \in bars
        has_edit == <<"edit">> \in bars
    IN  IF ~(has_image \/ has_layer \/ has_colors) THEN 0
        ELSE score + 5 + (IF has_file /\ has_edit THEN 3 ELSE 0)

\* lines 120-215
_score_gimp(ns) ==
    LET xy == [i \in 1..Len(ns) |-> GimpXY(ns[i])]
        bars == {MenubarName(ns[i], xy[i]) : i \in 1..Len(ns)}
        score == Sum([i \in 1..Len(ns) |-> GimpPoints(ns[i], xy[i])])
        has_image == <<"image">> \in bars
        has_layer == <<"layer">> \in bars
        has_colors == <<"colors">> \in bars
        has_file == <<"file">> \in bars
        has_edit == <<"edit">> \in bars
    IN  IF ~(has_image /\ has_layer /\ has_colors) THEN 0
        ELSE score + 5 + (IF has_file /\ has_edit THEN 3 ELSE 0)

VscTitle == Phrase(<<"visual", "studio", "code">>)

\* lines 218-225
_score_vsc(ns) ==
    20 * Count([i \in 1..Len(ns) |->
               contains(Name(ns[i]), VscTitle) \/ contains(Text(ns[i]), VscTitle)])

\* lines 240-244: a menu whose bbox y lies in the menu bar (9999 without bbox)
InCalcMenubar(n) ==
    LET y == Get(Get(n, "bbox", << >>), "y", 9999)
    IN  Tag(n) = <<"menu">> /\ 40 <= y /\ y <= 120

\* lines 228-284
_score_libreoffice_calc(ns) ==
    LET sheets == Count([i \in 1..Len(ns) |->
                     InCalcMenubar(ns[i]) /\ Name(ns[i]) = <<"sheet">>])
        datas == Count([i \in 1..Len(ns) |->
                     InCalcMenubar(ns[i]) /\ Name(ns[i]) = <<"data">>])
        table_cell_count ==
            Count([i \in 1..Len(ns) |-> Tag(ns[i]) = <<"table-cell">>])
    IN  8 * sheets + 6 * datas
      + (IF table_cell_count <= 300 THEN table_cell_count ELSE 300)
      + (IF table_cell_count > 50 THEN 10 ELSE 0)
      + (IF table_cell_count > 200 THEN 10 ELSE 0)
      + (IF sheets > 0 /\ table_cell_count > 20 THEN 10 ELSE 0)

ImpressTitles ==
    {Phrase(<<"libreoffice", "impress">>), Phrase(<<"libreoffice", "presentation">>)}

SlideShow == Phrase(<<"slide", "show">>)

WriterTitle == Phrase(<<"libreoffice", "writer">>)

UbuntuSoftware == Phrase(<<"ubuntu", "software">>)

\* lines 289-316
_score_libreoffice_impress(ns) ==
    LET titles == Count([i \in 1..Len(ns) |->
                     \E t \in ImpressTitles : contains(Name(ns[i]), t)])
        slide == Count([i \in 1..Len(ns) |->
                     Tag(ns[i]) = <<"menu">> /\ Name(ns[i]) = <<"slide">>])
        slideshow == Count([i \in 1..Len(ns) |->
                     Tag(ns[i]) = <<"menu">>
                     /\ Name(ns[i]) = SlideShow])
        docs == Count([i \in 1..Len(ns) |->
                     Tag(ns[i]) = <<"document-presentation">>])
    IN  20 * titles + 5 * slide + 5 * slideshow + 15 * docs
      + (IF slide > 0 /\ slideshow > 0 THEN 5 ELSE 0)

\* lines 318-347
_score_libreoffice_writer(ns) ==
    LET titles == Count([i \in 1..Len(ns) |-> contains(Name(ns[i]), WriterTitle)])
        styles == Count([i \in 1..Len(ns) |->
                     Tag(ns[i]) = <<"menu">> /\ Name(ns[i]) = <<"styles">>])
        table == Count([i \in 1..Len(ns) |->
                     Tag(ns[i]) = <<"menu">> /\ Name(ns[i]) = <<"table">>])
        docs == Count([i \in 1..Len(ns) |-> Tag(ns[i]) = <<"document-text">>])
    IN  20 * titles + 5 * styles + 3 * table + 15 * docs
      + (IF styles > 0 /\ table > 0 THEN 5 ELSE 0)

\* lines 350-365: the set literal.  Its assignment is indented into the body
\* of _score_libreoffice_writer, after that function's return statement.
OS_DOCK_APP_NAMES ==
    {Phrase(<<"google", "chrome">>), Phrase(<<"thunderbird", "mail">>),
     Phrase(<<"visual", "studio", "code">>), Phrase(<<"vlc", "media", "player">>),
     Phrase(<<"libreoffice", "writer">>), Phrase(<<"libreoffice", "calc">>),
     Phrase(<<"libreoffice", "impress">>),
     Phrase(<<"gnu", "image", "manipulation", "program">>),
     Phrase(<<"files">>), Phrase(<<"ubuntu", "software">>), Phrase(<<"help">>),
     Phrase(<<"terminal">>), Phrase(<<"trash">>),
     Phrase(<<"show", "applications">>)}

\* the names bound at module level of domain_detector.py (its top-level
\* assignments and defs); OS_DOCK_APP_NAMES is not among them
ModuleGlobals ==
    {"DEBUG_DOMAIN_SCORE", "_dbg", "_extract_xy_from_raw",
     "_estimate_screen_size", "_score_chrome", "_score_gimp", "_score_vsc",
     "_score_libreoffice_calc", "_score_libreoffice_impress",
     "_score_libreoffice_writer", "_has_os_dock", "_score_os",
     "detect_domain_from_nodes", "detect_domain_and_scores"}

\* lines 377-392: a button at the left edge with the size of a launcher
LauncherShaped(n) ==
    LET bbox == Get(n, "bbox", << >>)
    IN  /\ Get(n, "tag", << >>) # << >>
        /\ Tag(n) \in {<<"push-button">>, <<"toggle-button">>}
        /\ {"x", "w", "h"} \subseteq DOMAIN bbox
        /\ bbox["x"] <= 5
        /\ 40 <= bbox["h"] /\ bbox["h"] <= 90
        /\ 50 <= bbox["w"] /\ bbox["w"] <= 90

\* lines 368-397; raised = TRUE stands for the NameError of line 393, which
\* the first launcher-shaped button meets when the global name is unbound
_has_os_dock(ns) ==
    LET shaped == {i \in 1..Len(ns) : LauncherShaped(ns[i])}
        dock_like == Cardinality({i \in shaped :
                        lower(strip(Get(ns[i], "name", << >>)))
                            \in OS_DOCK_APP_NAMES})
    IN  IF shaped # {} /\ "OS_DOCK_APP_NAMES" \notin ModuleGlobals
        THEN [raised |-> TRUE, val |-> FALSE]
        ELSE [raised |-> FALSE, val |-> dock_like >= 4]

files_sidebar_keywords ==
    {Phrase(<<"recent">>), Phrase(<<"starred">>), Phrase(<<"home">>),
     Phrase(<<"desktop">>), Phrase(<<"documents">>), Phrase(<<"downloads">>),
     Phrase(<<"music">>), Phrase(<<"pictures">>), Phrase(<<"videos">>),
     Phrase(<<"trash">>), Phrase(<<"other", "locations">>)}

other_domain_keywords ==
    {Phrase(<<"google", "chrome">>), Phrase(<<"mozilla", "firefox">>),
     Phrase(<<"libreoffice", "calc">>), Phrase(<<"libreoffice", "writer">>),
     Phrase(<<"libreoffice", "impress">>),
     Phrase(<<"gnu", "image", "manipulation", "program">>), Phrase(<<"gimp">>),
     Phrase(<<"visual", "studio", "code">>), Phrase(<<"vlc", "media", "player">>)}

\* lines 412-438: the points of the direct OS landmarks
OsDirectScore(ns) ==
    LET vm == <<"user@user-virtual-machine">>
        terminals == Count([i \in 1..Len(ns) |-> Tag(ns[i]) = <<"terminal">>])
        termMenus == Count([i \in 1..Len(ns) |->
                        Tag(ns[i]) = <<"menu">> /\ Name(ns[i]) = <<"terminal">>])
        prompts == Count([i \in 1..Len(ns) |->
                        contains(Name(ns[i]), vm) \/ contains(Text(ns[i]), vm)])
        filesMenus == Count([i \in 1..Len(ns) |->
                        Tag(ns[i]) = <<"menu">> /\ Name(ns[i]) = <<"files">>])
        files_sidebar_hits == Count([i \in 1..Len(ns) |->
                        Tag(ns[i]) = <<"label">>
                        /\ Name(ns[i]) \in files_sidebar_keywords])
        swMenus == Count([i \in 1..Len(ns) |->
                        Tag(ns[i]) = <<"menu">>
                        /\ Name(ns[i]) = UbuntuSoftware])
        swTexts == Count([i \in 1..Len(ns) |->
                        contains(Text(ns[i]), UbuntuSoftware)])
    IN  30 * terminals + 15 * termMenus + 10 * prompts + 15 * filesMenus
      + 25 * swMenus + 10 * swTexts
      + (IF files_sidebar_hits >= 3 THEN 10 ELSE 0)

\* lines 444-447
text_blob(ns) ==
    lower(join(<<" ">>, [i \in 1..Len(ns) |->
        Get(ns[i], "name", << >>) \o <<" ">> \o Get(ns[i], "text", << >>)]))

\* lines 400-466; _has_os_dock is called before the keyword hint is looked at
_score_os(ns) ==
    LET score == OsDirectScore(ns)
        has_other_domain_hint ==
            \E kw \in other_domain_keywords : contains(text_blob(ns), kw)
        dock == _has_os_dock(ns)
    IN  IF score # 0 THEN [raised |-> FALSE, val |-> score]
        ELSE IF dock.raised THEN [raised |-> TRUE, val |-> 0]
        ELSE IF dock.val /\ ~has_other_domain_hint
        THEN [raised |-> FALSE, val |-> 5]
        ELSE [raised |-> FALSE, val |-> 0]

\* lines 497-505: the order in which the scores dict is filled and iterated
DomainOrder ==
    <<"gimp", "chrome", "vsc", "libreoffice_calc", "libreoffice_impress",
      "libreoffice_writer", "os">>

\* mutant of BestDomain: the comparison is made with 0, not with the best
RECURSIVE BestDomain_last_positive(_, _, _, _)
BestDomain_last_positive(scores, i, domain, best) ==
    IF i > Len(DomainOrder) THEN domain
    ELSE IF scores[DomainOrder[i]] > 0
    THEN BestDomain_last_positive(scores, i + 1, DomainOrder[i],
                                  scores[DomainOrder[i]])
    ELSE BestDomain_last_positive(scores, i + 1, domain, best)

\* mutant of BestDomain: a later domain with an equal score takes over
RECURSIVE BestDomain_ties_to_last(_, _, _, _)
BestDomain_ties_to_last(scores, i, domain, best) ==
    IF i > Len(DomainOrder) THEN domain
    ELSE IF scores[DomainOrder[i]] >= best /\ scores[DomainOrder[i]] > 0
    THEN BestDomain_ties_to_last(scores, i + 1, DomainOrder[i],
                                 scores[DomainOrder[i]])
    ELSE BestDomain_ties_to_last(scores, i + 1, domain, best)

\* lines 507-510: the loop over scores.items() from position i on
RECURSIVE BestDomain(_, _, _, _)
BestDomain(scores, i, domain, best) ==
    IF i > Len(DomainOrder) THEN domain
    ELSE IF scores[DomainOrder[i]] > best
    THEN BestDomain(scores, i + 1, DomainOrder[i], scores[DomainOrder[i]])
    ELSE BestDomain(scores, i + 1, domain, best)

\* lines 491-519
detect_domain_and_scores(ns) ==
    LET os == _score_os(ns)
        scores == [d \in {DomainOrder[i] : i \in 1..Len(DomainOrder)} |->
            CASE d = "gimp" -> _score_gimp(ns)
              [] d = "chrome" -> _score_chrome(ns)
              [] d = "vsc" -> _score_vsc(ns)
              [] d = "libreoffice_calc" -> _score_libreoffice_calc(ns)
              [] d = "libreoffice_impress" -> _score_libreoffice_impress(ns)
              [] d = "libreoffice_writer" -> _score_libreoffice_writer(ns)
              [] d = "os" -> os.val]
    IN  [raised |-> os.raised,
         domain |-> BestDomain(scores, 1, "generic", 0),
         scores |-> scores]

---------------------------------------------------------------------------
(* Nodes the model feeds to the scorer *)

MenuRaw(name, x, y) ==
    Row(<< <<"menu">>, name, << >>, << >>, << >>,
           <<"(", x, ",", " ", y, ")">>, <<"(", "70", ",", " ", "10", ")">>,
           << >> >>)

MenuNode(name, x, y) ==
    [tag |-> <<"menu">>, name |-> name, text |-> << >>,
     raw |-> MenuRaw(name, x, y)]

PlainNode(tag, name, text) == [tag |-> tag, name |-> name, text |-> text]

ScoreInputs ==
    << PlainNode(<<"label">>,
                 <<"GNU", " ", "Image", " ", "Manipulation", " ", "Program">>,
                 << >>),
       MenuNode(<<"Image">>, "100", "60"),
       MenuNode(<<"Layer">>, "100", "60"),
       MenuNode(<<"Colors">>, "100", "60"),
       MenuNode(<<"File">>, "100", "60"),
       MenuNode(<<"Edit">>, "100", "60"),
       MenuNode(<<"Filters">>, "1700", "60"),
       MenuNode(<<"Colors">>, "100", "200"),
       PlainNode(<<"link">>, <<"x">>, << >>),
       PlainNode(<<"table-cell">>, <<"A1">>, << >>),
       [tag |-> <<"push-button">>, name |-> <<"Files">>, text |-> << >>,
        bbox |-> [k \in {"x", "y", "w", "h"} |->
                     CASE k = "x" -> 0 [] k = "y" -> 100
                       [] k = "w" -> 70 [] k = "h" -> 70]],
       [tag |-> <<"push-button">>, name |-> <<"Files">>, text |-> << >>,
        bbox |-> [k \in {"x", "w"} |-> CASE k = "x" -> 0 [] k = "w" -> 70]],
       PlainNode(<<"label">>, << >>, <<"GIMP">>),
       PlainNode(<<"terminal">>, <<"t">>, << >>),
       PlainNode(<<"menu">>, <<"Slide">>, << >>),
       PlainNode(<<"menu">>, <<"Styles">>, << >>) >>

---------------------------------------------------------------------------
(* The scorer: the actions *)

NoResult == [domain |-> "", scores |-> << >>]

ScoreInit ==
    /\ elements = << >>
    /\ lastKind = 1
    /\ dpc = "build"
    /\ dresult = NoResult

ScoreIdle ==
    /\ elements = << >>
    /\ lastKind = 1
    /\ dpc = "idle"
    /\ dresult = NoResult

\* the caller puts one more node on the list (the lists are enumerated up
\* to the order of their nodes, which no score depends on)
AddNode ==
    \E k \in 1..Len(ScoreInputs) :
        /\ dpc = "build"
        /\ Len(elements) < MaxNodes
        /\ k >= lastKind
        /\ elements' = Append(elements, ScoreInputs[k])
        /\ lastKind' = k
        /\ UNCHANGED <<dpc, dresult>>
        /\ UNCHANGED outsideScore

\* detect_domain_and_scores(elements) returns
DetectReturns ==
    /\ dpc = "build"
    /\ ~_score_os(elements).raised
    /\ LET r == detect_domain_and_scores(elements)
       IN  dresult' = [domain |-> r.domain, scores |-> r.scores]
    /\ dpc' = "returned"
    /\ UNCHANGED <<elements, lastKind>>
    /\ UNCHANGED outsideScore

\* detect_domain_and_scores(elements) raises out of _score_os
DetectRaises ==
    /\ dpc = "build"
    /\ _score_os(elements).raised
    /\ dpc' = "raised"
    /\ UNCHANGED <<elements, lastKind, dresult>>
    /\ UNCHANGED outsideScore

ScoreNext == AddNode \/ DetectReturns \/ DetectRaises

---------------------------------------------------------------------------
(* Claims about the domain scorer (checked under SpecScore) *)

Returned == dpc = "returned"

Called == dpc \in {"returned", "raised"}

Domains == {DomainOrder[i] : i \in 1..Len(DomainOrder)}

\* the node list holds a menu with this (lower-case) name
HasMenu(name) ==
    \E i \in 1..Len(elements) :
        /\ lower(elements[i].tag) = <<"menu">>
        /\ lower(elements[i].name) = <<name>>

HasGimpTitle ==
    \E i \in 1..Len(elements) : contains(lower(elements[i].name), GimpTitle)

TriadIncomplete == ~HasMenu("image") \/ ~HasMenu("layer") \/ ~HasMenu("colors")

\* C6: the gimp score is 0 whenever one of the menus Image, Layer, Colors is
\* absent, whatever else is on the screen.
C6_GimpGating == (Returned /\ TriadIncomplete) => dresult.scores["gimp"] = 0

C6_Witness ==
    /\ Returned
    /\ TriadIncomplete
    /\ HasGimpTitle
    /\ HasMenu("image") /\ HasMenu("layer")
    /\ HasMenu("file") /\ HasMenu("filters")
    /\ dresult.scores["gimp"] = 0

MaxScore ==
    CHOOSE m \in {dresult.scores[d] : d \in Domains} :
        \A d \in Domains : dresult.scores[d] <= m

\* C7: every score is a non-negative integer; the returned domain is
\* "generic" exactly when every score is 0, and otherwise a domain whose score
\* is the maximum of the scores.
C7_ArgMax ==
    Returned =>
        /\ \A d \in Domains : dresult.scores[d] \in Nat
        /\ (dresult.domain = "generic") <=> (\A d \in Domains : dresult.scores[d] = 0)
        /\ dresult.domain # "generic" =>
              /\ dresult.domain \in Domains
              /\ dresult.scores[dresult.domain] = MaxScore

C7_Witness ==
    /\ Returned
    /\ dresult.domain = "libreoffice_impress"
    /\ dresult.scores["chrome"] > 0
    /\ dresult.scores["os"] = 0
    /\ dresult.scores["chrome"] < dresult.scores["libreoffice_impress"]

\* the positions in DomainOrder of the domains that share the highest score
TiedAtTop == {i \in 1..Len(DomainOrder) : dresult.scores[DomainOrder[i]] = MaxScore}

IsTie == Returned /\ MaxScore > 0 /\ Cardinality(TiedAtTop) >= 2

\* C8 as stated: on a tie for the highest positive score the tied domain that
\* is evaluated last is returned.
C8_AsStated ==
    IsTie => dresult.domain =
                DomainOrder[CHOOSE i \in TiedAtTop : \A j \in TiedAtTop : j <= i]

\* C8 as amended: on a tie for the highest positive score the tied domain
\* that is evaluated first is returned.
C8_TieToFirst ==
    IsTie => dresult.domain =
                DomainOrder[CHOOSE i \in TiedAtTop : \A j \in TiedAtTop : i <= j]

C8_Witness ==
    /\ IsTie
    /\ dresult.scores["libreoffice_impress"] = MaxScore
    /\ dresult.scores["libreoffice_writer"] = MaxScore
    /\ dresult.domain = "libreoffice_impress"

\* the situation of the desktop fallback rule: no direct OS landmark, at
\* least 4 launcher-shaped buttons with allow-listed names, and no keyword
\* of a competing domain in any name or text
DockButtons ==
    {i \in 1..Len(elements) :
        /\ LauncherShaped(elements[i])
        /\ lower(strip(elements[i].name)) \in OS_DOCK_APP_NAMES}

FallbackSituation ==
    /\ OsDirectScore(elements) = 0
    /\ Cardinality(DockButtons) >= 4
    /\ \A kw \in other_domain_keywords : ~contains(text_blob(elements), kw)

\* C9 as stated: in the fallback situation _score_os gives the flat score 5
\* and the scorer completes normally.
C9_AsStated ==
    (Called /\ FallbackSituation) => (Returned /\ dresult.scores["os"] = 5)

OtherScores ==
    {_score_gimp(elements), _score_chrome(elements), _score_vsc(elements),
     _score_libreoffice_calc(elements), _score_libreoffice_impress(elements),
     _score_libreoffice_writer(elements)}

\* C10 as stated: when the fallback rule gives the os score and another
\* domain has a positive score, the scorer returns, the os score is below
\* every positive score of another domain, and "os" is not the result.
C10_AsStated ==
    (Called /\ FallbackSituation /\ \E v \in OtherScores : v > 0) =>
        /\ Returned
        /\ dresult.domain # "os"
        /\ \A d \in Domains \ {"os"} :
              dresult.scores[d] > 0 => dresult.scores["os"] < dresult.scores[d]

---------------------------------------------------------------------------
(* core/common_ops.py is not part of the sources at hand: the two geometry *)
(* helpers every plug-in calls are modelled from the specification         *)
(* ("position and size may be absent, in which case geometry helpers must  *)
(* default to a degenerate zero-sized box at origin").                     *)

ZeroBox == [x |-> 0, y |-> 0, w |-> 0, h |-> 0]

node_bbox_from_raw(n) == Get(n, "bbox", ZeroBox)

bbox_to_center_tuple(b) == [cx |-> b.x + (b.w \div 2), cy |-> b.y + (b.h \div 2)]

---------------------------------------------------------------------------
(* Python helpers used by the plug-ins *)

\* `a or b` on strings
Or(a, b) == IF a # << >> THEN a ELSE b

\* int(v * 0.pct) for a non-negative integer v
Frac(v, pct) == (v * pct) \div 100

SetMin(S) == CHOOSE v \in S : \A u \in S : v <= u

SetMax(S) == CHOOSE v \in S : \A u \in S : v >= u

Abs(v) == IF v < 0 THEN 0 - v ELSE v

\* [x for x in xs if Test(x)]
Filter(xs, Test(_)) == SelectSeq(xs, Test)

\* the elements of a list
Range(xs) == {xs[k] : k \in 1..Len(xs)}

\* (n.get(key) or "")
Str(n, key) == Get(n, key, << >>)

\* (n.get("name") or n.get("text") or "").strip()
Label(n) == strip(Or(Str(n, "name"), Str(n, "text")))

\* the centre of a node
Center(n) == bbox_to_center_tuple(node_bbox_from_raw(n))

---------------------------------------------------------------------------
(* domains/chrome.py: constants *)

COOKIE_BUTTON_ANCHORS ==
    {Phrase(<<"Accept", "Cookies">>),
     Phrase(<<"Reject", "Non-Essential", "Cookies">>),
     Phrase(<<"Cookies", "Settings">>), Phrase(<<"Cookie", "Settings">>),
     Phrase(<<"Accept", "all">>), Phrase(<<"Reject", "all">>)}

\* the two Japanese keywords of the source are left out: no input of the
\* model holds a non-ASCII word
COOKIE_TEXT_KEYWORDS == {<<"cookie">>, <<"cookies">>, <<"privacy">>}

BROWSER_UI_ANCHOR_BUTTONS ==
    {Phrase(<<"reload">>), Phrase(<<"you">>), Phrase(<<"chrome">>),
     Phrase(<<"bookmark", "this", "tab">>)}

BROWSER_UI_ANCHOR_ENTRIES == {Phrase(<<"address", "and", "search", "bar">>)}

BROWSER_TAB_ANCHORS ==
    {Phrase(<<"search", "tabs">>), Phrase(<<"new", "tab">>), Phrase(<<"close">>)}

WINDOW_CONTROL_NAMES ==
    {<<"minimise">>, <<"minimize">>, <<"restore">>, <<"maximize">>, <<"close">>}

\* any(kw in s for kw in kws)
AnyIn(kws, str) == \E kw \in kws : contains(str, kw)

---------------------------------------------------------------------------
(* domains/chrome.py: the modal detectors.  A detector gets the node store *)
(* N and the list ids of the nodes it is to look at, and returns the modal *)
(* list and the background list.                                           *)

NothingModal(ids) == [modal |-> << >>, bg |-> ids]

\* lines 76-92: the node is at or below the footer line and is a cookie
\* button
CookieAnchor(n, H) ==
    LET tag == Tag(n)
        label == Label(n)
    IN  /\ Center(n).cy >= Frac(H, 65)
        /\ tag \in {<<"push-button">>, <<"link">>}
        /\ \/ label \in COOKIE_BUTTON_ANCHORS
           \/ AnyIn(COOKIE_TEXT_KEYWORDS, lower(label))

\* lines 76-90: the node is at or below the footer line and is a cookie
\* button or speaks of cookies
CookieRelated(n, H) ==
    LET tag == Tag(n)
        label == Label(n)
    IN  /\ Center(n).cy >= Frac(H, 65)
        /\ \/ tag \in {<<"push-button">>, <<"link">>}
              /\ label \in COOKIE_BUTTON_ANCHORS
           \/ AnyIn(COOKIE_TEXT_KEYWORDS, lower(label))

\* mutant of CookieBannerDetector_detect: the box test is dropped and a
\* related node is put on both lists
CookieBannerDetector_detect_keeps_related(N, ids, W, H) ==
    LET related == {k \in 1..Len(ids) : CookieRelated(N[ids[k]], H)}
        IsModal(k) == k \in related
        pos == [k \in 1..Len(ids) |-> k]
        Pick(ks) == [j \in 1..Len(ks) |-> ids[ks[j]]]
    IN  IF related = {} THEN NothingModal(ids)
        ELSE [modal |-> Pick(Filter(pos, IsModal)), bg |-> ids]

\* mutant of CookieBannerDetector_detect: the early return wants both index
\* lists empty (`and` for `or`), and a banner without a button is cut out
CookieBannerDetector_detect_needs_no_anchor(N, ids, W, H) ==
    LET related == {k \in 1..Len(ids) : CookieRelated(N[ids[k]], H)}
        IsModal(k) == k \in related
        IsBg(k) == k \notin related
        pos == [k \in 1..Len(ids) |-> k]
        Pick(ks) == [j \in 1..Len(ks) |-> ids[ks[j]]]
    IN  [modal |-> Pick(Filter(pos, IsModal)), bg |-> Pick(Filter(pos, IsBg))]

\* mutant of CookieBannerDetector_detect: only the buttons are cut out, the
\* banner's text stays in the background
CookieBannerDetector_detect_anchors_only(N, ids, W, H) ==
    LET anchors == {k \in 1..Len(ids) : CookieAnchor(N[ids[k]], H)}
        IsModal(k) == k \in anchors
        IsBg(k) == k \notin anchors
        pos == [k \in 1..Len(ids) |-> k]
        Pick(ks) == [j \in 1..Len(ks) |-> ids[ks[j]]]
    IN  [modal |-> Pick(Filter(pos, IsModal)), bg |-> Pick(Filter(pos, IsBg))]

\* mutant of CookieBannerDetector_detect: all that lies in the box is modal
CookieBannerDetector_detect_whole_box(N, ids, W, H) ==
    LET anchors == {k \in 1..Len(ids) : CookieAnchor(N[ids[k]], H)}
        related == {k \in 1..Len(ids) : CookieRelated(N[ids[k]], H)}
    IN  IF anchors = {} \/ related = {} THEN NothingModal(ids)
        ELSE
        LET c(k) == Center(N[ids[k]])
            MARGIN_X == Frac(W, 8)
            MARGIN_Y == 40
            box_l == SetMin({c(k).cx : k \in related}) - MARGIN_X
            box_r == SetMax({c(k).cx : k \in related}) + MARGIN_X
            box_t == SetMin({c(k).cy : k \in related}) - MARGIN_Y
            box_b == SetMax({c(k).cy : k \in related}) + MARGIN_Y
            IsModal(k) ==
                /\ box_l <= c(k).cx /\ c(k).cx <= box_r
                /\ box_t <= c(k).cy /\ c(k).cy <= box_b
            IsBg(k) == ~IsModal(k)
            pos == [k \in 1..Len(ids) |-> k]
            Pick(ks) == [j \in 1..Len(ks) |-> ids[ks[j]]]
        IN  [modal |-> Pick(Filter(pos, IsModal)),
             bg |-> Pick(Filter(pos, IsBg))]

\* CookieBannerDetector.detect, lines 63-127
CookieBannerDetector_detect(N, ids, W, H) ==
    LET anchors == {k \in 1..Len(ids) : CookieAnchor(N[ids[k]], H)}
        related == {k \in 1..Len(ids) : CookieRelated(N[ids[k]], H)}
    IN  IF anchors = {} \/ related = {} THEN NothingModal(ids)
        ELSE
        LET c(k) == Center(N[ids[k]])
            MARGIN_X == Frac(W, 8)
            MARGIN_Y == 40
            box_l == SetMin({c(k).cx : k \in related}) - MARGIN_X
            box_r == SetMax({c(k).cx : k \in related}) + MARGIN_X
            box_t == SetMin({c(k).cy : k \in related}) - MARGIN_Y
            box_b == SetMax({c(k).cy : k \in related}) + MARGIN_Y
            IsModal(k) ==
                LET n == N[ids[k]]
                IN  /\ box_l <= c(k).cx /\ c(k).cx <= box_r
                    /\ box_t <= c(k).cy /\ c(k).cy <= box_b
                    /\ \/ k \in related
                       \/ Tag(n) = <<"push-button">>
                          /\ lower(Label(n)) = <<"close">>
            IsBg(k) == ~IsModal(k)
            pos == [k \in 1..Len(ids) |-> k]
            Pick(ks) == [j \in 1..Len(ks) |-> ids[ks[j]]]
        IN  [modal |-> Pick(Filter(pos, IsModal)),
             bg |-> Pick(Filter(pos, IsBg))]

TOP_ANCHORS == {Phrase(<<"close", "dialog">>), Phrase(<<"close">>)}

BOT_ANCHORS ==
    {Phrase(<<"confirm", "my", "choices">>), Phrase(<<"accept", "all">>),
     Phrase(<<"save", "preferences">>)}

\* lines 145-152: a labelled push-button that is not at the left edge
OverlayButton(n, W) ==
    /\ Tag(n) = <<"push-button">>
    /\ lower(Label(n)) # << >>
    /\ ~(Center(n).cx * 100 < W * 5)

\* lines 155-157
TopAnchor(n, W, H) ==
    LET cy == Center(n).cy
    IN  /\ OverlayButton(n, W)
        /\ Frac(H, 8) <= cy /\ cy <= Frac(H, 55)
        /\ AnyIn(TOP_ANCHORS, lower(Label(n)))
        /\ cy * 10 > H

\* lines 160-162
BottomAnchor(n, W, H) ==
    /\ OverlayButton(n, W)
    /\ Center(n).cy >= Frac(H, 50)
    /\ AnyIn(BOT_ANCHORS, lower(Label(n)))

\* FullscreenOverlayDetector.detect, lines 134-182
FullscreenOverlayDetector_detect(N, ids, W, H) ==
    LET top_centers == {Center(N[ids[k]]).cy :
                            k \in {j \in 1..Len(ids) : TopAnchor(N[ids[j]], W, H)}}
        bot_centers == {Center(N[ids[k]]).cy :
                            k \in {j \in 1..Len(ids) : BottomAnchor(N[ids[j]], W, H)}}
    IN  IF top_centers = {} \/ bot_centers = {} THEN NothingModal(ids)
        ELSE
        LET top_y == SetMin(top_centers) - 40
            bot_y == SetMax(bot_centers) + 40
            IsModal(i) == top_y <= Center(N[i]).cy /\ Center(N[i]).cy <= bot_y
            IsBg(i) == ~IsModal(i)
        IN  IF (bot_y - top_y) * 10 < H * 4 THEN NothingModal(ids)
            ELSE [modal |-> Filter(ids, IsModal), bg |-> Filter(ids, IsBg)]

\* lines 193-198: a menu in the right part of the screen
MenuCandidate(n, W) ==
    /\ Tag(n) = <<"menu">> \/ lower(Str(n, "role")) = <<"menu">>
    /\ node_bbox_from_raw(n).x * 10 > W * 4

\* max(candidates, key=area): the first candidate of the largest area
RECURSIVE FirstLargest(_, _, _)
FirstLargest(boxes, k, best) ==
    IF k > Len(boxes) THEN best
    ELSE FirstLargest(boxes, k + 1,
            IF boxes[k].w * boxes[k].h > best.w * best.h THEN boxes[k] ELSE best)

\* FloatingMenuDetector.detect, lines 189-226
FloatingMenuDetector_detect(N, ids, W, H) ==
    LET IsCand(i) == MenuCandidate(N[i], W)
        cands == Filter(ids, IsCand)
    IN  IF cands = << >> THEN NothingModal(ids)
        ELSE
        LET boxes == [k \in 1..Len(cands) |-> node_bbox_from_raw(N[cands[k]])]
            best_menu == FirstLargest(boxes, 2, boxes[1])
            mx0 == best_menu.x - 50
            mx1 == W
            items == {node_bbox_from_raw(N[ids[k]]) :
                        k \in {j \in 1..Len(ids) :
                                 /\ Tag(N[ids[j]]) = <<"menu-item">>
                                 /\ node_bbox_from_raw(N[ids[j]]).x > mx0}}
            my0 == SetMin({best_menu.y} \cup {b.y : b \in items})
            my1 == SetMax({best_menu.y + best_menu.h} \cup {b.y + b.h : b \in items})
            IsModal(i) ==
                LET c == Center(N[i])
                IN  mx0 <= c.cx /\ c.cx <= mx1 /\ my0 <= c.cy /\ c.cy <= my1
            IsBg(i) == ~IsModal(i)
        IN  [modal |-> Filter(ids, IsModal), bg |-> Filter(ids, IsBg)]

\* ChromeCompressor.get_modal_detectors, lines 236-241: the declared order
get_modal_detectors == <<"cookie", "floating_menu", "fullscreen_overlay">>

\* detect of the named detector
Detect(det, N, ids, W, H) ==
    CASE det = "cookie" -> CookieBannerDetector_detect(N, ids, W, H)
      [] det = "floating_menu" -> FloatingMenuDetector_detect(N, ids, W, H)
      [] det = "fullscreen_overlay" -> FullscreenOverlayDetector_detect(N, ids, W, H)

---------------------------------------------------------------------------
(* domains/chrome.py: ChromeCompressor *)

\* triples <<a, b, k>> in lexicographic order; k is a list position, so no
\* two triples of one list are equal and the order is the order of Python's
\* stable sort on the key (a, b)
LexLess(s, t) ==
    \/ s[1] < t[1]
    \/ s[1] = t[1] /\ s[2] < t[2]
    \/ s[1] = t[1] /\ s[2] = t[2] /\ s[3] < t[3]

RECURSIVE Sorted(_)
Sorted(S) ==
    IF S = {} THEN << >>
    ELSE LET m == CHOOSE t \in S : \A u \in S \ {t} : LexLess(t, u)
         IN  <<m>> \o Sorted(S \ {m})

\* int(statistics.median(ys)) of a non-empty list of non-negative integers
Median(ys) ==
    LET srt == Sorted({<<ys[k], 0, k>> : k \in 1..Len(ys)})
        n == Len(srt)
    IN  IF n % 2 = 1 THEN srt[(n + 1) \div 2][1]
        ELSE (srt[n \div 2][1] + srt[(n \div 2) + 1][1]) \div 2

\* `word in atom` for the atoms that hold a shorter word of the source
SUBWORDS ==
    {<<"menu-item", "menu">>, <<"menu-bar", "menu">>, <<"popup-menu", "menu">>,
     <<"page tab", "tab">>, <<"page-tab", "tab">>, <<"results", "result">>,
     <<"cookies", "cookie">>, <<"rename", "am">>}

\* `word in str` for a one-word `word`
HasWord(str, word) ==
    \E k \in 1..Len(str) : str[k] = word \/ <<str[k], word>> \in SUBWORDS

\* (n.get("name") or "").strip().lower()
LowerName(n) == lower(strip(Str(n, "name")))

\* lines 314-319, 409-414: a toolbar anchor; buttons is the tuple of tags
\* that count as a button at the place of the test
ToolbarAnchor(n, buttons) ==
    \/ Tag(n) \in buttons /\ LowerName(n) \in BROWSER_UI_ANCHOR_BUTTONS
    \/ Tag(n) \in {<<"entry">>, <<"text">>, <<"text box">>}
       /\ LowerName(n) \in BROWSER_UI_ANCHOR_ENTRIES

TOOLBAR_KEYWORDS ==
    {"back", "forward", "reload", "refresh", "home", "address", "search",
     "location", "extensions", "menu", "settings", "customize"}

\* bbox["y"] + bbox["h"] // 2
MidY(n) == node_bbox_from_raw(n).y + (node_bbox_from_raw(n).h \div 2)

\* ChromeCompressor._estimate_toolbar_y, lines 306-362
_estimate_toolbar_y(ns, H) ==
    LET IsAnchor(n) == ToolbarAnchor(n, {<<"push-button">>, <<"button">>})
        IsCandidate(n) ==
            /\ Tag(n) \in {<<"push-button">>, <<"entry">>, <<"toggle-button">>}
            /\ ~(MidY(n) * 10 > H * 3)
            /\ \E kw \in TOOLBAR_KEYWORDS : HasWord(lower(Label(n)), kw)
        anchors == Filter(ns, IsAnchor)
        candidates == Filter(ns, IsCandidate)
    IN  IF anchors # << >>
        THEN Median([k \in 1..Len(anchors) |-> MidY(anchors[k])])
        ELSE IF candidates # << >>
        THEN Median([k \in 1..Len(candidates) |-> MidY(candidates[k])])
        ELSE Frac(H, 15)

TARGET_NAMES ==
    {<<"close">>, <<"minimize">>, <<"restore">>, <<"minimise">>, <<"maximize">>}

\* lines 384-401: the left edge of the window-control area
WinControlsMinX(ns, W) ==
    LET IsCand(n) ==
            /\ Tag(n) = <<"push-button">>
            /\ LowerName(n) \in TARGET_NAMES
            /\ node_bbox_from_raw(n).y < 60
        cands == Filter(ns, IsCand)
    IN  IF cands = << >> THEN Frac(W, 80)
        ELSE LET maxx == SetMax({node_bbox_from_raw(cands[k]).x : k \in 1..Len(cands)})
                 first == SetMin({k \in 1..Len(cands) :
                                    node_bbox_from_raw(cands[k]).x = maxx})
                 anchor == node_bbox_from_raw(cands[first])
             IN  IF anchor.x * 10 > W * 8 THEN anchor.x + anchor.w - 200
                 ELSE W + 1

PUNCTUATION == {"(", ")", ",", "|", "-", "+"}

\* lines 420-535: the region of one node and the tag it gets when the call
\* is not a dry run; region "-" is a node that is put in no region
ClassifyChrome(n, W, H, toolbar_center_y, win_controls_min_x, has_toolbar_anchors) ==
    LET tag == Tag(n)
        role == lower(Str(n, "role"))
        label == Or(strip(Str(n, "name")), strip(Str(n, "text")))
        bbox == node_bbox_from_raw(n)
        cy == Center(n).cy
        lower_name == LowerName(n)
        TOOLBAR_TOL == Frac(H, 3)
        TABSTRIP_Y_MIN == 42
        TABSTRIP_Y_MAX == toolbar_center_y - 25
        diff_y == Abs(cy - toolbar_center_y)
        is_toolbar_area ==
            /\ diff_y <= TOOLBAR_TOL
            /\ ~HasWord(lower_name, "ctrl+")
            /\ (bbox.x * 10 > W * 8) =>
                   ~(diff_y > 20) /\ ~(cy * 100 > H * 12)
            /\ ~HasWord(tag, "menu") /\ ~HasWord(role, "menu")
    IN  IF /\ bbox.y * 100 < H * 12
           /\ tag = <<"push-button">>
           /\ lower_name \in WINDOW_CONTROL_NAMES
           /\ bbox.x >= win_controls_min_x
        THEN [region |-> "WINDOW_CONTROLS", tag |-> <<"window-button">>]
        ELSE IF /\ tag \in {<<"push-button">>, <<"button">>, <<"toggle-button">>}
                /\ lower_name \in BROWSER_UI_ANCHOR_BUTTONS
        THEN [region |-> "BROWSER_UI", tag |-> <<"browser-button">>]
        ELSE IF /\ tag \in {<<"entry">>, <<"text box">>, <<"text">>}
                /\ lower_name \in BROWSER_UI_ANCHOR_ENTRIES
        THEN [region |-> "BROWSER_UI", tag |-> <<"browser-entry">>]
        ELSE IF ~has_toolbar_anchors /\ is_toolbar_area
        THEN IF tag \in {<<"push-button">>, <<"entry">>, <<"combo-box">>,
                         <<"menu-item">>, <<"toggle-button">>}
             THEN [region |-> "BROWSER_UI",
                   tag |-> IF tag = <<"entry">> THEN <<"browser-entry">>
                           ELSE IF tag = <<"combo-box">> THEN <<"browser-combo">>
                           ELSE <<"browser-button">>]
             ELSE [region |-> "-", tag |-> Str(n, "tag")]
        ELSE IF /\ lower_name \in BROWSER_TAB_ANCHORS
                /\ TABSTRIP_Y_MIN <= cy /\ cy <= TABSTRIP_Y_MAX
                /\ bbox.x < win_controls_min_x
        THEN [region |-> "BROWSER_TABS",
              tag |-> IF HasWord(role, "tab") \/ tag = <<"page tab">>
                      THEN <<"browser-tab">> ELSE <<"browser-tab-button">>]
        ELSE IF \/ label = << >>
                \/ Len(label) = 1 /\ label[1] \in PUNCTUATION
                \/ label = <<"ADVERTISEMENT">>
        THEN [region |-> "-", tag |-> Str(n, "tag")]
        ELSE [region |-> "CONTENT",
              tag |-> IF tag = <<"list-item">> /\ HasWord(lower(label), "result")
                      THEN <<"static">>
                      ELSE IF tag = <<"static">> /\ role = <<"heading">>
                      THEN <<"heading">>
                      ELSE Str(n, "tag")]

\* lines 611-633 and 691: TAG_PRIORITY.get(tag, 100)
TAG_PRIORITY(tag) ==
    CASE tag \in {<<"entry">>, <<"combo-box">>, <<"check-box">>,
                  <<"radio-button">>, <<"toggle-button">>, <<"spin-button">>,
                  <<"slider">>} -> 0
      [] tag = <<"push-button">> -> 1
      [] tag = <<"menu-item">> -> 2
      [] tag = <<"link">> -> 3
      [] tag = <<"heading">> -> 4
      [] tag = <<"image">> -> 5
      [] tag = <<"label">> -> 6
      [] tag = <<"static">> -> 7
      [] tag \in {<<"section">>, <<"paragraph">>} -> 8
      [] OTHER -> 100

\* lines 667-680: a sorted list of (cy, cx, idx) cut where two neighbours are
\* more than Y_TOL = 20 apart in cy
RECURSIVE Chain(_, _, _)
Chain(rest, current, done) ==
    IF rest = << >> THEN Append(done, current)
    ELSE IF Abs(Head(rest)[1] - current[Len(current)][1]) <= 20
    THEN Chain(Tail(rest), Append(current, Head(rest)), done)
    ELSE Chain(Tail(rest), <<Head(rest)>>, Append(done, current))

\* lines 682-699: the members of a cluster other than the first one of the
\* smallest TAG_PRIORITY
Losers(cluster, ns) ==
    LET score(m) == TAG_PRIORITY(lower(Str(ns[cluster[m][3]], "tag")))
        least == SetMin({score(m) : m \in 1..Len(cluster)})
        best == SetMin({m \in 1..Len(cluster) : score(m) = least})
    IN  {cluster[m][3] : m \in (1..Len(cluster)) \ {best}}

\* ChromeCompressor._dedup_overlapping_content, lines 592-701; ns is the
\* CONTENT list, and the result lists the positions of ns that are kept
_dedup_overlapping_content(ns) ==
    LET ContentLabel(n) == Or(strip(Str(n, "name")), strip(Str(n, "text")))
        labelled == {k \in 1..Len(ns) :
                        /\ Get(ns[k], "kind", << >>) # <<"block_header">>
                        /\ ContentLabel(ns[k]) # << >>}
        keys == {lower(ContentLabel(ns[k])) : k \in labelled}
        Items(key) == Sorted({<<Center(ns[k]).cy, Center(ns[k]).cx, k>> :
                                k \in {j \in labelled :
                                         lower(ContentLabel(ns[j])) = key}})
        Clusters(key) == Chain(Tail(Items(key)), <<Head(Items(key))>>, << >>)
        to_drop == UNION {UNION {Losers(Clusters(key)[c], ns) :
                                    c \in 1..Len(Clusters(key))} : key \in keys}
        Kept(k) == k \notin to_drop
    IN  Filter([k \in 1..Len(ns) |-> k], Kept)

RegionKeys == {"WINDOW_CONTROLS", "BROWSER_TABS", "BROWSER_UI", "CONTENT"}

\* the one value of a one-element set; {e : v \in {d}} names the value d as
\* v in e, the way a local variable of the source names it
The(S) == CHOOSE r \in S : TRUE

\* the positions of the list cls whose region is key
Members(cls, key) ==
    LET In(k) == cls[k].region = key
    IN  Filter([k \in 1..Len(cls) |-> k], In)

\* lines 537-540: the regions dict from the classification cls of the nodes
\* ns (ids are their indices in the node store)
RegionsOf(ns, ids, cls) ==
    The({[key \in RegionKeys |->
            IF key = "CONTENT"
            THEN [j \in 1..Len(kept) |-> ids[content[kept[j]]]]
            ELSE LET ks == Members(cls, key)
                 IN  [j \in 1..Len(ks) |-> ids[ks[j]]]] :
         content \in {Members(cls, "CONTENT")},
         kept \in {_dedup_overlapping_content(
                      LET c == Members(cls, "CONTENT")
                      IN  [j \in 1..Len(c) |-> ns[c[j]]])}})

\* mutant of get_semantic_regions: the tags are rewritten in a dry run too
get_semantic_regions_ignoring_dry_run(N, ids, W, H, dry_run) ==
    The({[regions |->
            RegionsOf([k \in 1..Len(ids) |->
                          [ns[k] EXCEPT !.tag = cls[k].tag]],
                      ids, cls),
          tags |-> [i \in 1..Len(N) |->
                      IF i \notin Range(ids) THEN N[i].tag
                      ELSE cls[CHOOSE k \in 1..Len(ids) : ids[k] = i].tag]] :
         ns \in {[k \in 1..Len(ids) |-> N[ids[k]]]},
         cls \in {The({[k \in 1..Len(ids) |->
                          ClassifyChrome(N[ids[k]], W, H, toolbar_center_y,
                                         win_controls_min_x,
                                         has_toolbar_anchors)] :
                       toolbar_center_y \in
                          {_estimate_toolbar_y([k \in 1..Len(ids) |-> N[ids[k]]], H)},
                       win_controls_min_x \in
                          {WinControlsMinX([k \in 1..Len(ids) |-> N[ids[k]]], W)},
                       has_toolbar_anchors \in
                          {\E k \in 1..Len(ids) :
                              ToolbarAnchor(N[ids[k]],
                                            {<<"push-button">>, <<"button">>,
                                             <<"toggle-button">>})}})}})

\* ChromeCompressor.get_semantic_regions, lines 364-540: the regions (lists
\* of node indices) and the tags of the nodes after the call
get_semantic_regions(N, ids, W, H, dry_run) ==
    The({[regions |->
            RegionsOf([k \in 1..Len(ids) |->
                          IF dry_run THEN ns[k]
                          ELSE [ns[k] EXCEPT !.tag = cls[k].tag]],
                      ids, cls),
          tags |-> [i \in 1..Len(N) |->
                      IF dry_run \/ i \notin Range(ids) THEN N[i].tag
                      ELSE cls[CHOOSE k \in 1..Len(ids) : ids[k] = i].tag]] :
         ns \in {[k \in 1..Len(ids) |-> N[ids[k]]]},
         cls \in {The({[k \in 1..Len(ids) |->
                          ClassifyChrome(N[ids[k]], W, H, toolbar_center_y,
                                         win_controls_min_x,
                                         has_toolbar_anchors)] :
                       toolbar_center_y \in
                          {_estimate_toolbar_y([k \in 1..Len(ids) |-> N[ids[k]]], H)},
                       win_controls_min_x \in
                          {WinControlsMinX([k \in 1..Len(ids) |-> N[ids[k]]], W)},
                       has_toolbar_anchors \in
                          {\E k \in 1..Len(ids) :
                              ToolbarAnchor(N[ids[k]],
                                            {<<"push-button">>, <<"button">>,
                                             <<"toggle-button">>})}})}})

\* len(a) for the words of the inputs; any other atom is one character
AtomLen(a) ==
    CASE a \in {"we"} -> 2
      [] a \in {"all", "use", "and", "bar", "new", "tab"} -> 3
      [] a \in {"home"} -> 4
      [] a \in {"close", "files", "ready"} -> 5
      [] a \in {"accept", "cookie", "dialog", "reload", "search"} -> 6
      [] a \in {"cookies", "address", "options"} -> 7
      [] a \in {"settings", "Required", "Password"} -> 8
      [] a \in {"Authentication"} -> 14
      [] OTHER -> 1

\* len(s)
StrLen(str) == Sum([k \in 1..Len(str) |-> AtomLen(str[k])])

\* lines 268-302: the node goes to the static list
ChromeStatic(n, W, H, forbidden) ==
    LET bbox == node_bbox_from_raw(n)
        tag == lower(Or(Str(n, "role"), Str(n, "tag")))
        name == LowerName(n)
        LAUNCHER_X_MAX == (W * 35) \div 1000
        STATUS_Y_MIN == Frac(H, 90)
    IN  \/ forbidden
        \/ /\ bbox.x < LAUNCHER_X_MAX
           /\ bbox.w * 100 < W * 6 /\ bbox.h * 100 < H * 12
           /\ name = << >> \/ StrLen(name) <= 12
        \/ /\ bbox.y > STATUS_Y_MIN
           /\ tag \in {<<"status-bar">>, <<"status">>}

\* lines 257-260: the ids of the nodes the dry run puts in the browser's
\* own regions
ForbiddenIds(regions) ==
    UNION {Range(regions[key]) :
             key \in {"WINDOW_CONTROLS", "BROWSER_TABS", "BROWSER_UI"}}

\* ChromeCompressor.split_static_ui, lines 243-304: the two lists, and the
\* tags of the nodes after the call (its one call that may write to a node
\* is the dry run of line 255)
ChromeCompressor_split_static_ui(N, W, H) ==
    The({
    The({LET ids == [i \in 1..Len(N) |-> i]
             IsStatic(i) == ChromeStatic(N[i], W, H, i \in forbidden_ids)
             IsDynamic(i) == ~IsStatic(i)
         IN  [dynamic |-> Filter(ids, IsDynamic), static |-> Filter(ids, IsStatic),
              tags |-> dry.tags] :
         forbidden_ids \in {ForbiddenIds(dry.regions)}})
         : dry \in {get_semantic_regions(N, [i \in 1..Len(N) |-> i], W, H, TRUE)}})

---------------------------------------------------------------------------
(* domains/gimp.py, libreoffice_calc.py, libreoffice_impress.py,           *)
(* libreoffice_writer.py, os.py: split_static_ui.  The five methods differ *)
(* in their static_groups only.  The dry-run classification they start     *)
(* from is an input of the model: cls gives, for each node, the key of the *)
(* region get_semantic_regions(dry_run=True) put it in, "-" for none.      *)

GroupPlugins ==
    {"gimp", "libreoffice_calc", "libreoffice_impress", "libreoffice_writer", "os"}

\* the keys of the regions dict of the plug-in's get_semantic_regions
PluginRegions(p) ==
    CASE p = "gimp" ->
            {"MENUBAR", "APP_LAUNCHER", "TOOLBOX", "DOCKS", "CANVAS",
             "STATUSBAR", "MODAL"}
      [] p = "libreoffice_calc" ->
            {"MENUBAR", "APP_LAUNCHER", "TOOLBAR", "SHEET", "SHEET_TABS",
             "STATUSBAR", "MODAL"}
      [] p \in {"libreoffice_impress", "libreoffice_writer"} ->
            {"MENUBAR", "APP_LAUNCHER", "TOOLBAR", "SLIDE_LIST", "CONTENT",
             "PROPERTIES", "STATUSBAR", "MODAL"}
      [] p = "os" ->
            {"APP_LAUNCHER", "TOP_BAR", "DESKTOP_ICONS", "OS_POPUP", "MODAL",
             "CONTENT"}

\* static_groups of the plug-in's split_static_ui
static_groups(p) ==
    CASE p = "gimp" ->
            {"MENUBAR", "APP_LAUNCHER", "TOOLBOX", "DOCKS", "STATUSBAR"}
      [] p = "libreoffice_calc" ->
            {"MENUBAR", "APP_LAUNCHER", "TOOLBAR", "STATUSBAR", "SHEET_TABS"}
      [] p \in {"libreoffice_impress", "libreoffice_writer"} ->
            {"MENUBAR", "APP_LAUNCHER", "TOOLBAR", "STATUSBAR", "SLIDE_LIST",
             "PROPERTIES"}
      [] p = "os" -> {"APP_LAUNCHER", "TOP_BAR", "DESKTOP_ICONS"}

\* mutant of split_static_ui: the dynamic list is every node that is in some
\* region outside the static groups
split_static_ui_dynamic_from_regions(p, cls) ==
    LET ids == [i \in 1..Len(cls) |-> i]
        IsStatic(i) == cls[i] \in static_groups(p)
        IsDynamic(i) == cls[i] \in PluginRegions(p) \ static_groups(p)
    IN  [dynamic |-> Filter(ids, IsDynamic), static |-> Filter(ids, IsStatic)]

\* split_static_ui of the five plug-ins (gimp.py 34-62, os.py 22-51, ...)
split_static_ui(p, cls) ==
    LET ids == [i \in 1..Len(cls) |-> i]
        static_ids == {i \in 1..Len(cls) : cls[i] \in static_groups(p)}
        IsStatic(i) == i \in static_ids
        IsDynamic(i) == i \notin static_ids
    IN  [dynamic |-> Filter(ids, IsDynamic), static |-> Filter(ids, IsStatic)]

---------------------------------------------------------------------------
(* The hooks' inputs and the steps that call them *)

ENode(tag, name, text, role, x, y, w, h) ==
    [tag |-> <<tag>>, name |-> name, text |-> text, role |-> role,
     bbox |-> [x |-> x, y |-> y, w |-> w, h |-> h]]

Screens == <<[w |-> 1920, h |-> 1080], [w |-> 1000, h |-> 1000]>>

\* the nodes a Chrome screen is built from
EngineInputs ==
    << ENode("push-button", Phrase(<<"Accept", "all">>), << >>, << >>,
             400, 800, 100, 40),
       ENode("static", Phrase(<<"Accept", "all">>), << >>, << >>,
             400, 810, 100, 20),
       ENode("static", << >>, Phrase(<<"We", "use", "cookies">>), << >>,
             200, 850, 300, 20),
       ENode("link", Phrase(<<"Cookie", "Settings">>), << >>, << >>,
             600, 900, 100, 20),
       ENode("push-button", Phrase(<<"Close">>), << >>, << >>,
             1850, 10, 30, 30),
       ENode("push-button", Phrase(<<"Close", "dialog">>), << >>, << >>,
             900, 300, 30, 30),
       ENode("push-button", Phrase(<<"Reload">>), << >>, << >>,
             100, 100, 30, 30),
       ENode("push-button", Phrase(<<"New", "Tab">>), << >>, << >>,
             300, 50, 30, 30),
       ENode("menu", Phrase(<<"Options">>), << >>, << >>,
             1500, 200, 300, 400),
       ENode("menu-item", Phrase(<<"Settings">>), << >>, << >>,
             1500, 650, 300, 30),
       ENode("push-button", Phrase(<<"Files">>), << >>, << >>,
             0, 300, 60, 60),
       ENode("status-bar", Phrase(<<"Ready">>), << >>, << >>,
             500, 980, 200, 20),
       ENode("static", << >>, << >>, << >>,
             500, 500, 10, 10),
       ENode("static", Phrase(<<"Home">>), << >>, << >>,
             500, 150, 50, 20),
       ENode("push-button", Phrase(<<"Close">>), << >>, << >>,
             700, 900, 30, 30) >>

NoRegions == [key \in RegionKeys |-> << >>]

AllIds == [i \in 1..Len(enodes) |-> i]

EngineInit ==
    /\ \/ plugin = "chrome" /\ screen \in Range(Screens)
       \/ plugin \in GroupPlugins /\ screen = Screens[1]
    /\ enodes = << >>
    /\ ecls = << >>
    /\ elastKind = 1
    /\ epc = "build"
    /\ edyn = << >>
    /\ estatic = << >>
    /\ eregions = NoRegions
    /\ etags = << >>
    /\ emodal = << >>
    /\ ebg = << >>
    /\ edet = << >>

EngineIdle ==
    /\ plugin = "chrome"
    /\ screen = Screens[1]
    /\ enodes = << >>
    /\ ecls = << >>
    /\ elastKind = 1
    /\ epc = "idle"
    /\ edyn = << >>
    /\ estatic = << >>
    /\ eregions = NoRegions
    /\ etags = << >>
    /\ emodal = << >>
    /\ ebg = << >>
    /\ edet = << >>

\* the caller puts one more node on the Chrome screen
AddElement ==
    \E k \in 1..Len(EngineInputs) :
        /\ epc = "build" /\ plugin = "chrome"
        /\ Len(enodes) < MaxElems
        /\ k >= elastKind
        /\ enodes' = Append(enodes, EngineInputs[k])
        /\ elastKind' = k
        /\ UNCHANGED <<screen, plugin, ecls, epc, edyn, estatic, eregions,
                       etags, emodal, ebg, edet>>
        /\ UNCHANGED outsideEngine

\* the caller puts one more node on the screen of another plug-in; the node
\* is known by the region the plug-in's dry run classifies it into
AddClassified ==
    /\ epc = "build" /\ plugin \in GroupPlugins
    /\ \E key \in PluginRegions(plugin) \cup {"-"} :
        /\ Len(ecls) < MaxClassified
        /\ ecls' = Append(ecls, key)
        /\ UNCHANGED <<screen, plugin, enodes, elastKind, epc, edyn, estatic,
                       eregions, etags, emodal, ebg, edet>>
        /\ UNCHANGED outsideEngine

\* split_static_ui(nodes, w, h) of the plug-in returns
SplitStaticUi ==
    /\ epc = "build"
    /\ LET r == IF plugin = "chrome"
                THEN ChromeCompressor_split_static_ui(enodes, screen.w, screen.h)
                ELSE split_static_ui(plugin, ecls)
       IN  /\ edyn' = r.dynamic /\ estatic' = r.static
           /\ etags' = IF plugin = "chrome" THEN r.tags ELSE etags
    /\ epc' = "split"
    /\ UNCHANGED <<screen, plugin, enodes, ecls, elastKind, eregions,
                   emodal, ebg, edet>>
    /\ UNCHANGED outsideEngine

\* ChromeCompressor.get_semantic_regions(nodes, w, h) returns
SemanticRegions ==
    /\ epc = "build" /\ plugin = "chrome"
    /\ LET r == get_semantic_regions(enodes, AllIds, screen.w, screen.h, FALSE)
       IN  eregions' = r.regions /\ etags' = r.tags
    /\ epc' = "regions"
    /\ UNCHANGED <<screen, plugin, enodes, ecls, elastKind, edyn, estatic,
                   emodal, ebg, edet>>
    /\ UNCHANGED outsideEngine

\* one detector's detect(nodes, screen_w, screen_h) returns
DetectAlone ==
    \E det \in Range(get_modal_detectors) :
        /\ epc = "build" /\ plugin = "chrome"
        /\ LET r == Detect(det, enodes, AllIds, screen.w, screen.h)
           IN  emodal' = r.modal /\ ebg' = r.bg
        /\ edet' = <<det>>
        /\ epc' = "detected"
        /\ UNCHANGED <<screen, plugin, enodes, ecls, elastKind, edyn, estatic,
                       eregions, etags>>
        /\ UNCHANGED outsideEngine

\* core/engine.py is not part of the sources at hand.  The step below is the
\* specification's modal stage: "the engine runs each detector in turn over
\* the current background remainder (never over elements already claimed as
\* modal by an earlier detector), accumulating a modal set and shrinking the
\* background set".
RunNextDetector ==
    /\ epc \in {"build", "chain"} /\ plugin = "chrome"
    /\ Len(edet) < Len(get_modal_detectors)
    /\ LET det == get_modal_detectors[Len(edet) + 1]
           ids == IF epc = "build" THEN AllIds ELSE ebg
           r == Detect(det, enodes, ids, screen.w, screen.h)
       IN  /\ emodal' = emodal \o r.modal
           /\ ebg' = r.bg
           /\ edet' = Append(edet, det)
    /\ epc' = "chain"
    /\ UNCHANGED <<screen, plugin, enodes, ecls, elastKind, edyn, estatic,
                   eregions, etags>>
    /\ UNCHANGED outsideEngine

EngineNext ==
    \/ AddElement
    \/ AddClassified
    \/ SplitStaticUi
    \/ SemanticRegions
    \/ DetectAlone
    \/ RunNextDetector

---------------------------------------------------------------------------
(* Claims about the plug-ins' hooks *)

\* how often i occurs in the list xs
Occurrences(xs, i) == Cardinality({k \in 1..Len(xs) : xs[k] = i})

\* the number of nodes handed to the hook
InputSize == IF plugin = "chrome" THEN Len(enodes) ELSE Len(ecls)

\* C11: split_static_ui of every plug-in is a partition: the dynamic and the
\* static list together hold every input node exactly once, and no node is
\* in both.
C11_SplitPartition ==
    epc = "split" =>
        /\ Range(edyn) \cup Range(estatic) = 1..InputSize
        /\ Range(edyn) \cap Range(estatic) = {}
        /\ \A i \in 1..InputSize :
              Occurrences(edyn, i) + Occurrences(estatic, i) = 1

C11_Witness ==
    /\ epc = "split" /\ plugin = "os"
    /\ edyn # << >> /\ estatic # << >>
    /\ \E i \in 1..Len(ecls) : ecls[i] = "-"

\* C12 as stated: ChromeCompressor.get_semantic_regions puts every input node
\* in exactly one of WINDOW_CONTROLS, BROWSER_TABS, BROWSER_UI, CONTENT.
C12_AsStated ==
    epc = "regions" =>
        \A i \in 1..Len(enodes) :
            Cardinality({<<key, k>> \in RegionKeys \X (1..Len(enodes)) :
                            k <= Len(eregions[key]) /\ eregions[key][k] = i}) = 1

\* "no matching anchor" for the detector: the nodes it seeds its box from
NoAnchor(det) ==
    LET W == screen.w
        H == screen.h
    IN  CASE det = "cookie" ->
                \A i \in 1..Len(enodes) : ~CookieAnchor(enodes[i], H)
          [] det = "floating_menu" ->
                \A i \in 1..Len(enodes) : ~MenuCandidate(enodes[i], W)
          [] det = "fullscreen_overlay" ->
                \/ \A i \in 1..Len(enodes) : ~TopAnchor(enodes[i], W, H)
                \/ \A i \in 1..Len(enodes) : ~BottomAnchor(enodes[i], W, H)

\* C13: a detector that finds no anchor in its input returns an empty modal
\* list and the input as the background, in the same order, and the call
\* changes no node.
C13_NonInterference ==
    [][(epc = "build" /\ epc' = "detected" /\ NoAnchor(edet'[1])) =>
          (emodal' = << >> /\ ebg' = AllIds /\ enodes' = enodes)]_vars

C13_Witness ==
    /\ epc = "detected" /\ edet = <<"cookie">>
    /\ NoAnchor("cookie")
    /\ \E i \in 1..Len(enodes) : CookieRelated(enodes[i], screen.h)
    /\ emodal = << >> /\ ebg = AllIds

\* C14: while the detectors run in their declared order, each over the
\* background the one before left, the modal list and the background are
\* disjoint and together hold every node exactly once; no node is claimed
\* twice.
C14_ChainPartition ==
    epc = "chain" =>
        /\ edet = SubSeq(get_modal_detectors, 1, Len(edet))
        /\ Range(emodal) \cap Range(ebg) = {}
        /\ \A i \in 1..Len(enodes) :
              Occurrences(emodal, i) + Occurrences(ebg, i) = 1

C14_Witness ==
    /\ epc = "chain" /\ Len(edet) = 3
    /\ ebg # << >>
    /\ LET first == CookieBannerDetector_detect(enodes, AllIds, screen.w, screen.h)
       IN  first.modal # << >> /\ Len(emodal) > Len(first.modal)

\* the cookie banner of the scenario: a node named "Accept all" whose tag is
\* one of tags, and three other nodes whose label holds the word "cookie",
\* all four with their centre at or below 65% of the screen height
Banner(tags) ==
    LET InFooter(i) == Center(enodes[i]).cy * 100 >= screen.h * 65
        Accept == {i \in 1..Len(enodes) :
                     /\ strip(Str(enodes[i], "name")) = Phrase(<<"Accept", "all">>)
                     /\ Tag(enodes[i]) \in tags
                     /\ InFooter(i)}
        Cookie == {i \in 1..Len(enodes) :
                     /\ HasWord(lower(Label(enodes[i])), "cookie")
                     /\ InFooter(i)}
    IN  UNION {{{a} \cup cs : cs \in {c \in SUBSET (Cookie \ {a}) :
                                        Cardinality(c) = 3}} : a \in Accept}

AllTags == {Tag(EngineInputs[k]) : k \in 1..Len(EngineInputs)}

CookieReturned == epc = "detected" /\ edet = <<"cookie">>

\* C15 as stated: whatever the tag of the "Accept all" node, the cookie
\* detector returns all four nodes as modal and none in the background.
C15_AsStated ==
    CookieReturned =>
        \A four \in Banner(AllTags) :
            four \subseteq Range(emodal) /\ four \cap Range(ebg) = {}

\* C15 as amended: when the "Accept all" node is a push-button or a link,
\* the cookie detector returns all four nodes as modal and none in the
\* background.
C15_CookieScenario ==
    CookieReturned =>
        \A four \in Banner({<<"push-button">>, <<"link">>}) :
            four \subseteq Range(emodal) /\ four \cap Range(ebg) = {}

C15_Witness ==
    /\ CookieReturned
    /\ Banner({<<"push-button">>, <<"link">>}) # {}
    /\ Len(emodal) = 4 /\ ebg = << >>

\* the cookie detector returned and there was an anchor on the screen
CookieAnchorFound ==
    CookieReturned /\ \E i \in 1..Len(enodes) : CookieAnchor(enodes[i], screen.h)

RelatedIds == {i \in 1..Len(enodes) : CookieRelated(enodes[i], screen.h)}

\* the centre of node i lies in the box of the centres of the related
\* nodes, widened by 8% of the screen width and by 40 px up and down
InCookieBox(i) ==
    LET xs == {Center(enodes[j]).cx : j \in RelatedIds}
        ys == {Center(enodes[j]).cy : j \in RelatedIds}
        c == Center(enodes[i])
    IN  /\ SetMin(xs) - (screen.w * 8) \div 100 <= c.cx
        /\ c.cx <= SetMax(xs) + (screen.w * 8) \div 100
        /\ SetMin(ys) - 40 <= c.cy
        /\ c.cy <= SetMax(ys) + 40

CloseButton(i) ==
    /\ Tag(enodes[i]) = <<"push-button">>
    /\ lower(Label(enodes[i])) = <<"close">>

\* C26 as stated: every node whose centre lies in the box is modal, and
\* every background node lies outside the box.
C26_AsStated ==
    CookieAnchorFound =>
        \A i \in 1..Len(enodes) :
            /\ InCookieBox(i) => i \in Range(emodal)
            /\ i \in Range(ebg) => ~InCookieBox(i)

\* C26 as amended: a node is modal exactly when its centre lies in the box
\* and it is cookie-related or a push-button labelled "close"; every other
\* node, in the box or not, is background.  The related nodes are all modal.
C26_BoxRule ==
    CookieAnchorFound =>
        /\ \A i \in 1..Len(enodes) :
              /\ i \in Range(emodal) <=>
                    (InCookieBox(i) /\ (i \in RelatedIds \/ CloseButton(i)))
              /\ i \in Range(ebg) <=> i \notin Range(emodal)
        /\ RelatedIds \subseteq Range(emodal)

\* a close button in the box is modal next to the banner, and a node in
\* the box that is neither related nor a close button is background
C26_Witness ==
    /\ CookieAnchorFound
    /\ \E i \in Range(emodal) : CloseButton(i) /\ i \notin RelatedIds
    /\ \E i \in Range(ebg) : InCookieBox(i)

\* ChromeCompressor.split_static_ui has returned
ChromeSplit == epc = "split" /\ plugin = "chrome"

\* C27: the dry run inside split_static_ui rewrites no tag (the one field
\* get_semantic_regions ever writes), and the two lists returned hold the
\* nodes of the input, each once, as they were.
C27_DryRunFrame ==
    ChromeSplit =>
        /\ etags = [i \in 1..Len(enodes) |-> enodes[i].tag]
        /\ \A i \in 1..Len(enodes) :
              Occurrences(edyn, i) + Occurrences(estatic, i) = 1
        /\ Range(edyn) \cup Range(estatic) = 1..Len(enodes)

\* the screen holds nodes of the browser's own regions, whose tag a call
\* that is not a dry run rewrites, and the split has put them in static
C27_Witness ==
    /\ ChromeSplit
    /\ \E i \in Range(estatic) :
          get_semantic_regions(enodes, AllIds, screen.w, screen.h, FALSE).tags[i]
              # enodes[i].tag
    /\ \E i \in Range(edyn) :
          get_semantic_regions(enodes, AllIds, screen.w, screen.h, FALSE).tags[i]
              = enodes[i].tag

---------------------------------------------------------------------------
(* domains/thunderbird.py: the view of a screen *)

\* disp(n): (name or text or description).strip()
disp(n) == strip(Or(Or(Str(n, "name"), Str(n, "text")), Str(n, "description")))

ldisp(n) == lower(disp(n))

\* how many nodes of the list pass the test
Hits(ns, Test(_)) == Cardinality({k \in 1..Len(ns) : Test(ns[k])})

Min(a, b) == IF a <= b THEN a ELSE b

compose_signals ==
    {<<"from">>, <<"to">>, <<"subject">>, <<"cc">>, <<"bcc">>, <<"send">>,
     <<"attach">>, <<"spelling">>}

MessageBody(n) ==
    /\ Tag(n) = <<"document-web">>
    /\ ldisp(n) \in {Phrase(<<"message", "body">>), <<"body">>}

\* lines 1033-1056: the compose guard
ComposeGuard(ns) ==
    LET Signal(n) ==
            /\ Tag(n) \in {<<"label">>, <<"entry">>, <<"push-button">>,
                           <<"combo-box">>, <<"toggle-button">>}
            /\ ldisp(n) \in compose_signals
        SubjectEntry(n) ==
            /\ Tag(n) = <<"entry">>
            /\ (ldisp(n) = <<"subject">> \/ LowerName(n) = <<"subject">>)
    IN  /\ Hits(ns, MessageBody) > 0
        /\ (Hits(ns, Signal) >= 2 \/ Hits(ns, SubjectEntry) > 0)

\* the add-ons signals of lines 1061-1067 and 1127-1134
AddonsTitle(n) == Tag(n) = <<"document-web">> /\ contains(ldisp(n), <<"add-ons">>)

AddonsSite(n) ==
    Tag(n) = <<"entry">> /\ contains(ldisp(n), <<"addons.thunderbird.net">>)

AddonsFindMore(n) ==
    Tag(n) = <<"label">> /\ ldisp(n) = Phrase(<<"find", "more", "add-ons">>)

AddonsThemes(n) ==
    Tag(n) = <<"heading">> /\ ldisp(n) = Phrase(<<"manage", "your", "themes">>)

AddonsExtensions(n) ==
    Tag(n) = <<"heading">> /\ ldisp(n) = Phrase(<<"manage", "your", "extensions">>)

AddonsTools(n) ==
    /\ Tag(n) = <<"push-button">>
    /\ ldisp(n) = Phrase(<<"tools", "for", "all", "add-ons">>)

is_addons_guard(ns) ==
    \/ Hits(ns, AddonsTitle) > 0
    \/ Hits(ns, AddonsSite) > 0
    \/ Hits(ns, AddonsFindMore) > 0
    \/ Hits(ns, AddonsThemes) > 0
    \/ Hits(ns, AddonsExtensions) > 0
    \/ Hits(ns, AddonsTools) > 0

\* line 1072
AccountGuard(ns) ==
    LET Title(n) == contains(ldisp(n), Phrase(<<"account", "settings", "-">>))
    IN  Hits(ns, Title) > 0

home_headings ==
    {Phrase(<<"set", "up", "another", "account">>),
     Phrase(<<"import", "from", "another", "program">>),
     Phrase(<<"about", "mozilla", "thunderbird">>),
     <<"resources">>}

\* lines 1081-1090: the points for the mail view
MailScore(ns) ==
    LET Keyword(n) ==
            ldisp(n) \in {Phrase(<<"quick", "filter">>),
                          Phrase(<<"message", "list", "display", "options">>)}
        MsgRow(n) == Tag(n) = <<"tree-item">> /\ contains(disp(n), <<",">>)
        rows == Hits(ns, MsgRow)
    IN  (IF Hits(ns, Keyword) > 0 THEN 3 ELSE 0)
        + (IF rows >= 2 THEN 3 ELSE IF rows = 1 THEN 1 ELSE 0)

\* lines 1093-1103
HomeScore(ns) ==
    LET Heading(n) == Tag(n) = <<"heading">> /\ ldisp(n) \in home_headings
    IN  Min(Hits(ns, Heading) * 2, 6)

\* lines 1107-1120
SettingsScore(ns) ==
    LET Doc(n) == Tag(n) = <<"document-web">> /\ ldisp(n) = <<"settings">>
        Nav(n) ==
            /\ Tag(n) \in {<<"list-item">>, <<"label">>}
            /\ ldisp(n) \in {<<"general">>, <<"composition">>, <<"chat">>,
                             Phrase(<<"privacy", "&", "security">>)}
        Sect(n) == Tag(n) = <<"section">> /\ ldisp(n) = <<"settings">>
    IN  (IF Hits(ns, Doc) > 0 THEN 6 ELSE 0)
        + Min(Hits(ns, Nav), 2)
        + (IF Hits(ns, Sect) > 0 THEN 2 ELSE 0)

\* lines 1123-1143
AddonsScore(ns) ==
    LET Manager(n) == contains(ldisp(n), Phrase(<<"add-ons", "manager">>))
        Sect(n) == Tag(n) = <<"section">> /\ Manager(n)
        Doc(n) == Tag(n) = <<"document-web">> /\ Manager(n)
        Nav(n) ==
            /\ Tag(n) \in {<<"section">>, <<"list-item">>, <<"label">>, <<"link">>}
            /\ ldisp(n) \in {<<"recommendations">>, <<"extensions">>,
                             <<"themes">>, <<"languages">>}
    IN  (IF Hits(ns, Sect) > 0 THEN 4 ELSE 0)
        + (IF Hits(ns, Doc) > 0 THEN 4 ELSE 0)
        + (IF Hits(ns, AddonsSite) > 0 THEN 6 ELSE 0)
        + (IF Hits(ns, AddonsFindMore) > 0 THEN 3 ELSE 0)
        + (IF Hits(ns, AddonsThemes) > 0 THEN 3 ELSE 0)
        + (IF Hits(ns, AddonsTools) > 0 THEN 3 ELSE 0)
        + Min(Hits(ns, Nav), 4)

\* lines 1147-1159
ComposeScore(ns) ==
    LET Field(n) ==
            /\ Tag(n) \in {<<"label">>, <<"entry">>, <<"combo-box">>}
            /\ ldisp(n) \in {<<"from">>, <<"to">>, <<"subject">>, <<"cc">>, <<"bcc">>}
        Send(n) == Tag(n) = <<"push-button">> /\ ldisp(n) = <<"send">>
        Attach(n) == Tag(n) = <<"push-button">> /\ ldisp(n) = <<"attach">>
    IN  (IF Hits(ns, MessageBody) > 0 THEN 6 ELSE 0)
        + Min(Hits(ns, Field), 4)
        + (IF Hits(ns, Send) > 0 THEN 2 ELSE 0)
        + (IF Hits(ns, Attach) > 0 THEN 1 ELSE 0)

\* the score dict in insertion order; "mail" is a key only once it has points
ScoreItems(ns) ==
    (IF MailScore(ns) > 0 THEN <<[view |-> "mail", s |-> MailScore(ns)]>>
     ELSE << >>)
    \o <<[view |-> "home", s |-> HomeScore(ns)],
         [view |-> "settings", s |-> SettingsScore(ns)],
         [view |-> "addons_manager", s |-> AddonsScore(ns)],
         [view |-> "compose", s |-> ComposeScore(ns)]>>

\* sorted(score.items(), key=lambda kv: kv[1], reverse=True): the k-th item
\* of the stable descending sort
Top(items, k) ==
    LET Before(a, b) == items[a].s > items[b].s \/ (items[a].s = items[b].s /\ a < b)
        pos == CHOOSE a \in 1..Len(items) :
                  Cardinality({b \in 1..Len(items) : Before(b, a)}) = k - 1
    IN  items[pos]

MIN_SCORE == 3

\* lines 1164-1180; the margins 2.0 and 0.5 over integer scores
Decide(items) ==
    LET first == Top(items, 1)
        second == Top(items, 2)
        margin == IF {first.view, second.view} = {"settings", "addons_manager"}
                  THEN 2 ELSE 1
    IN  IF first.s < MIN_SCORE THEN "unknown"
        ELSE IF first.s - second.s < margin THEN "unknown"
        ELSE first.view

_detect_view_type(ns) ==
    IF ComposeGuard(ns) THEN "compose"
    ELSE IF is_addons_guard(ns) THEN "addons_manager"
    ELSE IF AccountGuard(ns) THEN "account_settings"
    ELSE Decide(ScoreItems(ns))

---------------------------------------------------------------------------
(* domains/thunderbird.py: _build_output.  A line of the output is a     *)
(* record: a section header, a formatted node, the empty line or a debug *)
(* line.                                                                  *)

OutLine(kind, text, n) ==
    [kind |-> kind, text |-> text, tag |-> Tag(n), name |-> Label(n),
     cx |-> Center(n).cx, cy |-> Center(n).cy]

NoNode == [tag |-> << >>, name |-> << >>]

Header(text) == OutLine("header", text, NoNode)

BlankLine == OutLine("blank", "", NoNode)

\* _format_node: [tag] "name" @ (cx, cy), or no line for a node without a
\* name and a text
_format_node(n) ==
    IF Label(n) = << >> THEN << >> ELSE <<OutLine("node", "", n)>>

RECURSIVE FormatAll(_)
FormatAll(ns) ==
    IF ns = << >> THEN << >>
    ELSE _format_node(Head(ns)) \o FormatAll(Tail(ns))

\* nodes.sort(key=...): the list in the stable order of the keys, Key(n) a
\* pair of integers
SortedBy(ns, Key(_)) ==
    LET order == Sorted({<<Key(ns[k])[1], Key(ns[k])[2], k>> :
                           k \in 1..Len(ns)})
    IN  [j \in 1..Len(ns) |-> ns[order[j][3]]]

_compress_statusbar(ns) ==
    LET ByX(n) == <<node_bbox_from_raw(n).x, 0>>
        OnScreen(n) == node_bbox_from_raw(n).y <= 1080
    IN  FormatAll(Filter(SortedBy(ns, ByX), OnScreen))

_compress_modal(ns) ==
    LET ByYX(n) == <<node_bbox_from_raw(n).y, node_bbox_from_raw(n).x>>
    IN  FormatAll(SortedBy(ns, ByYX))

\* a section: its header, the serializer's lines and an empty line, or
\* nothing when the serializer returns no line
Section(header, r) ==
    IF r = << >> THEN << >> ELSE <<Header(header)>> \o r \o <<BlankLine>>

\* mutant of Smooth: the cooldown is stored as it is, never counted down
Smooth_never_counts_down(st, view_type) ==
    LET cooldown == IF st.prev # << >> /\ <<view_type>> # st.prev THEN 2
                    ELSE st.cooldown
    IN  [cooldown |-> cooldown, prev |-> <<view_type>>, stored |-> cooldown]

\* mutant of Smooth: a view change starts a cooldown of one call
Smooth_cooldown_of_one(st, view_type) ==
    LET cooldown == IF st.prev # << >> /\ <<view_type>> # st.prev THEN 1
                    ELSE st.cooldown
    IN  [cooldown |-> cooldown,
         prev |-> <<view_type>>,
         stored |-> IF cooldown - 1 > 0 THEN cooldown - 1 ELSE 0]

\* lines 2064-2093: the view smoothing of one call on an instance whose
\* attributes are st; cooldown is the value the call works with
Smooth(st, view_type) ==
    LET cooldown == IF st.prev # << >> /\ <<view_type>> # st.prev THEN 2
                    ELSE st.cooldown
    IN  [cooldown |-> cooldown,
         prev |-> <<view_type>>,
         stored |-> IF cooldown - 1 > 0 THEN cooldown - 1 ELSE 0]

\* mutant of SetAttrs: the attributes are the class's, shared by all instances
SetAttrs_on_class(insts, self, sm) ==
    [j \in DOMAIN insts |-> [prev |-> sm.prev, cooldown |-> sm.stored]]

\* lines 2092-2093: setattr(self, ...)
SetAttrs(insts, self, sm) ==
    [insts EXCEPT ![self] = [prev |-> sm.prev, cooldown |-> sm.stored]]

\* lines 2041-2393 for a call whose regions other than STATUSBAR and MODAL are
\* empty and whose view is home, settings or unknown: the serializers of the
\* empty regions return no line, so that no section of theirs is written
_build_output(st, statusbar, modal, modal_nodes) ==
    The({
    The({
    The({
        [view |-> view_type,
         sm |-> sm,
         lines |->
            <<OutLine("debug", "DEBUG_VIEW_TYPE", NoNode)>>
            \o (IF sm.cooldown > 0
                THEN <<OutLine("debug", "DEBUG_MODAL_SUPPRESSED", NoNode)>>
                ELSE << >>)
            \o Section("=== STATUS BAR ===", _compress_statusbar(statusbar))
            \o (IF all_modals # << >> /\ _compress_modal(all_modals) # << >>
                THEN <<Header("=== MODAL / DIALOG ===")>> \o _compress_modal(all_modals)
                ELSE << >>)]
        : all_modals \in {IF sm.cooldown > 0 THEN << >> ELSE modal \o modal_nodes} })
        : sm \in {Smooth(st, view_type)} })
        : view_type \in {_detect_view_type(statusbar \o modal \o modal_nodes)} })

\* the status bars of the screens a call is made on: the home view, the
\* settings view, and two screens of no known view
TbScreens ==
    <<
      <<ENode("heading", <<"About", " ", "Mozilla", " ", "Thunderbird">>, << >>, << >>,
              300, 1000, 80, 30),
        ENode("heading", <<"Resources">>, << >>, << >>, 100, 1000, 80, 30)>>,
      <<ENode("document-web", <<"Settings">>, << >>, << >>, 100, 1000, 80, 30)>>,
      <<ENode("label", <<"Ready">>, << >>, << >>, 100, 1000, 80, 30)>>,
      <<ENode("heading", <<"Resources">>, << >>, << >>, 100, 1000, 80, 30)>>
    >>

DialogOk == ENode("push-button", <<"OK">>, << >>, << >>, 900, 500, 80, 30)

DialogNote == ENode("label", << >>, <<"Saved">>, << >>, 900, 20, 80, 30)

DialogBlank == ENode("static", << >>, << >>, << >>, 900, 600, 80, 30)

\* regions["MODAL"] and the modal_nodes argument of a call
TbModals ==
    <<[modal |-> << >>, modal_nodes |-> << >>],
      [modal |-> <<DialogOk>>, modal_nodes |-> << >>],
      [modal |-> << >>, modal_nodes |-> <<DialogNote>>],
      [modal |-> <<DialogOk, DialogBlank>>, modal_nodes |-> <<DialogNote>>]>>

Instances == {1, 2}

\* __init__, lines 51-54
NewInstance == [prev |-> << >>, cooldown |-> 0]

NoCall ==
    [self |-> 0, modal |-> << >>, modal_nodes |-> << >>, view |-> "",
     before |-> NewInstance, cooldown |-> 0]

TbStart ==
    /\ tbInst = [i \in Instances |-> NewInstance]
    /\ tbViews = [i \in Instances |-> << >>]
    /\ tbSupp = [i \in Instances |-> << >>]
    /\ tbCall = NoCall
    /\ tbLines = << >>

TbInit == TbStart /\ tbpc = "ready"

TbIdle == TbStart /\ tbpc = "idle"

\* one _build_output call on the instance self
BuildOutput ==
    /\ tbpc \in {"ready", "returned"}
    /\ Len(tbViews[1]) + Len(tbViews[2]) < MaxCalls
    /\ \E self \in Instances, s \in 1..Len(TbScreens), m \in 1..Len(TbModals) :
         \E r \in {_build_output(tbInst[self], TbScreens[s], TbModals[m].modal,
                                 TbModals[m].modal_nodes)} :
            /\ tbInst' = SetAttrs(tbInst, self, r.sm)
            /\ tbViews' = [tbViews EXCEPT ![self] = Append(@, r.view)]
            /\ tbSupp' = [tbSupp EXCEPT ![self] = Append(@, r.sm.cooldown > 0)]
            /\ tbCall' = [self |-> self, modal |-> TbModals[m].modal,
                          modal_nodes |-> TbModals[m].modal_nodes,
                          view |-> r.view, before |-> tbInst[self],
                          cooldown |-> r.sm.cooldown]
            /\ tbLines' = r.lines
    /\ tbpc' = "returned"
    /\ UNCHANGED outsideTb

TbNext == BuildOutput

---------------------------------------------------------------------------
(* Claims about the view smoothing of ThunderbirdCompressor *)

\* what an instance that is the only one holds, and decides, after calls
\* with these views
RECURSIVE Alone(_)
Alone(views) ==
    IF views = << >> THEN [inst |-> NewInstance, supp |-> << >>]
    ELSE LET before == Alone(SubSeq(views, 1, Len(views) - 1))
             sm == Smooth(before.inst, views[Len(views)])
         IN  [inst |-> [prev |-> sm.prev, cooldown |-> sm.stored],
              supp |-> Append(before.supp, sm.cooldown > 0)]

\* C16: the view-smoothing state belongs to one instance: under every
\* interleaving of _build_output calls on two instances, each instance holds
\* the attributes and has made the suppression decisions of an instance that
\* got its calls alone, and a call changes the attributes of no other
\* instance.
C16_InstanceScoped ==
    /\ \A i \in Instances :
          /\ tbInst[i] = Alone(tbViews[i]).inst
          /\ tbSupp[i] = Alone(tbViews[i]).supp
    /\ \A i \in Instances \ {tbCall.self} :
          tbViews[i] = << >> => tbInst[i] = NewInstance

C16_Witness ==
    /\ tbpc = "returned"
    /\ tbViews[1] = <<"home", "settings">> /\ tbViews[2] = <<"unknown", "unknown">>
    /\ tbSupp[1] = <<FALSE, TRUE>> /\ tbSupp[2] = <<FALSE, FALSE>>
    /\ tbInst[1].cooldown = 1 /\ tbInst[2].cooldown = 0

\* the last call was made on an instance whose stored cooldown was positive
CountingDown == tbpc = "returned" /\ tbCall.before.cooldown > 0

\* the last call detected a view change
ViewChanged ==
    tbCall.before.prev # << >> /\ tbCall.before.prev # <<tbCall.view>>

\* C17 as stated: a call on an instance whose stored cooldown is positive
\* leaves it one lower, whether or not the call detects a view change.
C17_AsStated ==
    CountingDown =>
        tbInst[tbCall.self].cooldown = tbCall.before.cooldown - 1

\* C17 as amended: a call stores max(0, c - 1), where c is 2 when the call
\* detects a view change and the stored cooldown otherwise; so the stored
\* cooldown goes down by one per call to 0 as long as the view stays, and a
\* further view change puts it back to 1.
C17_Countdown ==
    tbpc = "returned" =>
        LET c == IF ViewChanged THEN 2 ELSE tbCall.before.cooldown
        IN  /\ tbInst[tbCall.self].cooldown = (IF c > 0 THEN c - 1 ELSE 0)
            /\ (CountingDown /\ ~ViewChanged) =>
                  tbInst[tbCall.self].cooldown = tbCall.before.cooldown - 1
            /\ ViewChanged => tbInst[tbCall.self].cooldown = 1

C17_Witness ==
    /\ CountingDown /\ ~ViewChanged
    /\ tbCall.before.cooldown = 1
    /\ tbInst[tbCall.self].cooldown = 0
    /\ Len(tbViews[tbCall.self]) = 3

\* the nodes the last call got as modal: regions["MODAL"] and modal_nodes
ModalArguments == tbCall.modal \o tbCall.modal_nodes

\* the lines of the sections before the modal section
BeforeModalSection ==
    LET Modal(k) == tbLines[k] = Header("=== MODAL / DIALOG ===")
    IN  IF \E k \in 1..Len(tbLines) : Modal(k)
        THEN SubSeq(tbLines, 1, (CHOOSE k \in 1..Len(tbLines) : Modal(k)) - 1)
        ELSE tbLines

\* C18 as stated: a call made while the cooldown is positive hides nothing:
\* every node it got as modal that formats to a line is written in a
\* section other than the modal one.
C18_AsStated ==
    (tbpc = "returned" /\ tbCall.cooldown > 0) =>
        \A k \in 1..Len(ModalArguments) :
            Range(_format_node(ModalArguments[k])) \subseteq Range(BeforeModalSection)

\* call k of instance i detected another view than call k - 1 did
ChangedAt(i, k) == k >= 2 /\ k <= Len(tbViews[i]) /\ tbViews[i][k] # tbViews[i][k - 1]

HasModalSection ==
    \E k \in 1..Len(tbLines) : tbLines[k] = Header("=== MODAL / DIALOG ===")

\* C24: call k of an instance is suppressed exactly when the view changed at
\* call k or at call k - 1 of that instance; so the first call never is, and
\* one change followed by the same view suppresses two calls in a row.  A
\* suppressed call writes no modal section.
C24_SuppressionTiming ==
    /\ \A i \in Instances :
          /\ Len(tbSupp[i]) = Len(tbViews[i])
          /\ \A k \in 1..Len(tbSupp[i]) :
                tbSupp[i][k] <=> (ChangedAt(i, k) \/ ChangedAt(i, k - 1))
    /\ (tbpc = "returned" /\ tbSupp[tbCall.self][Len(tbSupp[tbCall.self])]) =>
          ~HasModalSection

\* the third call of an instance whose view changed at the second call only
\* got a dialog as modal and wrote no modal section
C24_Witness ==
    /\ tbpc = "returned"
    /\ tbSupp[tbCall.self] = <<FALSE, TRUE, TRUE>>
    /\ ChangedAt(tbCall.self, 2)
    /\ ~ChangedAt(tbCall.self, 3)
    /\ _compress_modal(ModalArguments) # << >>
    /\ ~HasModalSection

---------------------------------------------------------------------------
(* _build_output of the six plug-ins: the section headers of the output.  *)
(* has is the set of headers whose condition in the code holds: the       *)
(* region, or the lines its serializer returns, is not empty.  The lines  *)
(* between the headers are left out.                                      *)

Emit(cond, header) == IF cond THEN <<header>> ELSE << >>

\* gimp.py, lines 143-189
GimpCompressor_build_output(has) ==
    Emit("WINDOW_CONTROLS:" \in has, "WINDOW_CONTROLS:")
    \o Emit("APP_LAUNCHER:" \in has, "APP_LAUNCHER:")
    \o Emit("MENUBAR:" \in has, "MENUBAR:")
    \o Emit("TOOLBOX (Left Panel):" \in has, "TOOLBOX (Left Panel):")
    \o Emit("CANVAS (Center):" \in has, "CANVAS (Center):")
    \o Emit("DOCKS (Right Panel):" \in has, "DOCKS (Right Panel):")
    \o Emit("STATUSBAR:" \in has, "STATUSBAR:")
    \o Emit("MODAL:" \in has, "MODAL:")

\* mutant of CalcCompressor_build_output: the modal section is written
\* before the status bar
CalcCompressor_build_output_modal_early(has) ==
    Emit("APP_LAUNCHER:" \in has, "APP_LAUNCHER:")
    \o Emit("MENUBAR:" \in has, "MENUBAR:")
    \o Emit("TOOLBAR:" \in has, "TOOLBAR:")
    \o Emit("SHEET:" \in has, "SHEET:")
    \o Emit("SHEET_TABS:" \in has, "SHEET_TABS:")
    \o Emit("MODAL:" \in has, "MODAL:")
    \o Emit("STATUSBAR:" \in has, "STATUSBAR:")

\* libreoffice_calc.py, lines 350-494
CalcCompressor_build_output(has) ==
    Emit("APP_LAUNCHER:" \in has, "APP_LAUNCHER:")
    \o Emit("MENUBAR:" \in has, "MENUBAR:")
    \o Emit("TOOLBAR:" \in has, "TOOLBAR:")
    \o Emit("SHEET:" \in has, "SHEET:")
    \o Emit("SHEET_TABS:" \in has, "SHEET_TABS:")
    \o Emit("STATUSBAR:" \in has, "STATUSBAR:")
    \o Emit("MODAL:" \in has, "MODAL:")

\* libreoffice_impress.py, lines 261-319
ImpressCompressor_build_output(has) ==
    Emit("APP_LAUNCHER:" \in has, "APP_LAUNCHER:")
    \o Emit("STATUSBAR:" \in has, "STATUSBAR:")
    \o Emit("MENUBAR:" \in has, "MENUBAR:")
    \o Emit("TOOLBAR:" \in has, "TOOLBAR:")
    \o Emit("SLIDE_LIST:" \in has, "SLIDE_LIST:")
    \o Emit("PROPERTIES:" \in has, "PROPERTIES:")
    \o Emit("CONTENT:" \in has, "CONTENT:")
    \o Emit("MODAL:" \in has, "MODAL:")

\* libreoffice_writer.py, lines 336-403
WriterCompressor_build_output(has) ==
    Emit("APP_LAUNCHER:" \in has, "APP_LAUNCHER:")
    \o Emit("MENUBAR:" \in has, "MENUBAR:")
    \o Emit("TOOLBAR:" \in has, "TOOLBAR:")
    \o Emit("SLIDE_LIST:" \in has, "SLIDE_LIST:")
    \o Emit("STATUSBAR:" \in has, "STATUSBAR:")
    \o Emit("PROPERTIES:" \in has, "PROPERTIES:")
    \o Emit("CONTENT:" \in has, "CONTENT:")
    \o Emit("MODAL:" \in has, "MODAL:")

\* os.py, lines 1046-1075
OSCompressor_build_output(has) ==
    Emit("APP_LAUNCHER:" \in has, "APP_LAUNCHER:")
    \o Emit("TOP_BAR:" \in has, "TOP_BAR:")
    \o Emit("DESKTOP_ICONS:" \in has, "DESKTOP_ICONS:")
    \o Emit("OS_POPUP:" \in has, "OS_POPUP:")
    \o Emit("CONTENT:" \in has, "CONTENT:")
    \o Emit("MODAL:" \in has, "MODAL:")

\* thunderbird.py, _compress_settings_view (583-648) and
\* _compress_account_settings_view (650-718): title is the view's own header
SettingsHeaders(title, sidebar, main, below, has) ==
    IF title \in has
    THEN <<title>> \o Emit(sidebar \in has, sidebar) \o Emit(main \in has, main)
         \o Emit(below \in has, below)
    ELSE << >>

\* thunderbird.py, _build_mail_view, lines 1270-1441
MailHeaders(has) ==
    Emit("=== FOLDER_LIST ===" \in has, "=== FOLDER_LIST ===")
    \o Emit("=== MESSAGE_LIST_HEADER ===" \in has, "=== MESSAGE_LIST_HEADER ===")
    \o Emit("=== MESSAGE_LIST ===" \in has, "=== MESSAGE_LIST ===")
    \o Emit("=== MESSAGE_ACTIONS ===" \in has, "=== MESSAGE_ACTIONS ===")
    \o Emit("=== MESSAGE_HEADER ===" \in has, "=== MESSAGE_HEADER ===")
    \o Emit("=== MESSAGE_BODY ===" \in has, "=== MESSAGE_BODY ===")
    \o Emit("=== STATUSBAR ===" \in has, "=== STATUSBAR ===")

\* thunderbird.py, lines 2125-2366: the sections of the view
ViewHeaders(view_type, has) ==
    CASE view_type = "home" ->
            Emit("=== FOLDERS ===" \in has, "=== FOLDERS ===")
            \o Emit("=== HOME DASHBOARD ===" \in has, "=== HOME DASHBOARD ===")
      [] view_type = "settings" ->
            IF "=== SETTINGS ===" \in has
            THEN SettingsHeaders("=== SETTINGS ===", "=== SETTINGS SIDEBAR ===",
                                 "=== SETTINGS MAIN ===",
                                 "=== SETTINGS (scroll down) ===", has)
            ELSE Emit("=== SETTINGS (Fallback) ===" \in has,
                      "=== SETTINGS (Fallback) ===")
      [] view_type = "account_settings" ->
            SettingsHeaders("=== ACCOUNT SETTINGS ===",
                            "=== ACCOUNT SETTINGS SIDEBAR ===",
                            "=== ACCOUNT SETTINGS MAIN ===",
                            "=== ACCOUNT SETTINGS (scroll down) ===", has)
      [] view_type = "addons_manager" ->
            Emit("=== TABS ===" \in has, "=== TABS ===")
            \o Emit("=== ADDONS SIDENAV ===" \in has, "=== ADDONS SIDENAV ===")
            \o Emit("=== ADDONS TOOLBAR ===" \in has, "=== ADDONS TOOLBAR ===")
            \o Emit("=== ADDONS CONTENT ===" \in has, "=== ADDONS CONTENT ===")
      [] view_type = "mail" -> MailHeaders(has)
      [] view_type = "compose" ->
            <<"=== COMPOSE MENUBAR ===", "\n=== COMPOSE ACTIONS ===",
              "\n=== COMPOSE FIELDS ===", "\n=== COMPOSE FORMATTING ===",
              "\n=== COMPOSE BODY ===">>
      [] OTHER ->
            Emit("=== FOLDERS ===" \in has, "=== FOLDERS ===")
            \o Emit("=== MESSAGE LIST ===" \in has, "=== MESSAGE LIST ===")
            \o Emit("=== PREVIEW ===" \in has, "=== PREVIEW ===")
            \o Emit("=== DASHBOARD CONTENT ===" \in has, "=== DASHBOARD CONTENT ===")

\* thunderbird.py, lines 2041-2393; the account settings view empties both
\* modal lists (2149-2161)
ThunderbirdCompressor_build_output(view_type, has) ==
    Emit("=== SYSTEM ===" \in has, "=== SYSTEM ===")
    \o Emit("=== LAUNCHER ===" \in has, "=== LAUNCHER ===")
    \o Emit("=== TOOLBAR ===" \in has, "=== TOOLBAR ===")
    \o Emit("=== SPACES ===" \in has, "=== SPACES ===")
    \o ViewHeaders(view_type, has)
    \o Emit(view_type # "mail" /\ "=== STATUS BAR ===" \in has, "=== STATUS BAR ===")
    \o Emit(view_type # "account_settings" /\ "=== MODAL / DIALOG ===" \in has,
            "=== MODAL / DIALOG ===")

HeaderPlugins ==
    {"gimp", "libreoffice_calc", "libreoffice_impress", "libreoffice_writer",
     "os", "thunderbird"}

ViewTypes ==
    {"mail", "home", "settings", "addons_manager", "account_settings",
     "compose", "unknown"}

\* the headers whose condition an input of p can make true
Conditions(p, view_type) ==
    CASE p = "gimp" -> Range(GimpCompressor_build_output(
            {"WINDOW_CONTROLS:", "APP_LAUNCHER:", "MENUBAR:", "TOOLBOX (Left Panel):",
             "CANVAS (Center):", "DOCKS (Right Panel):", "STATUSBAR:", "MODAL:"}))
      [] p = "libreoffice_calc" -> Range(CalcCompressor_build_output(
            {"APP_LAUNCHER:", "MENUBAR:", "TOOLBAR:", "SHEET:", "SHEET_TABS:",
             "STATUSBAR:", "MODAL:"}))
      [] p \in {"libreoffice_impress", "libreoffice_writer"} ->
            {"APP_LAUNCHER:", "MENUBAR:", "TOOLBAR:", "SLIDE_LIST:", "STATUSBAR:",
             "PROPERTIES:", "CONTENT:", "MODAL:"}
      [] p = "os" ->
            {"APP_LAUNCHER:", "TOP_BAR:", "DESKTOP_ICONS:", "OS_POPUP:", "CONTENT:",
             "MODAL:"}
      [] p = "thunderbird" ->
            {"=== SYSTEM ===", "=== LAUNCHER ===", "=== TOOLBAR ===", "=== SPACES ===",
             "=== STATUS BAR ===", "=== MODAL / DIALOG ==="}
            \cup (CASE view_type = "home" -> {"=== FOLDERS ===", "=== HOME DASHBOARD ==="}
                    [] view_type = "settings" ->
                        {"=== SETTINGS ===", "=== SETTINGS SIDEBAR ===",
                         "=== SETTINGS MAIN ===", "=== SETTINGS (scroll down) ===",
                         "=== SETTINGS (Fallback) ==="}
                    [] view_type = "account_settings" ->
                        {"=== ACCOUNT SETTINGS ===", "=== ACCOUNT SETTINGS SIDEBAR ===",
                         "=== ACCOUNT SETTINGS MAIN ===",
                         "=== ACCOUNT SETTINGS (scroll down) ==="}
                    [] view_type = "addons_manager" ->
                        {"=== TABS ===", "=== ADDONS SIDENAV ===",
                         "=== ADDONS TOOLBAR ===", "=== ADDONS CONTENT ==="}
                    [] view_type = "mail" ->
                        {"=== FOLDER_LIST ===", "=== MESSAGE_LIST_HEADER ===",
                         "=== MESSAGE_LIST ===", "=== MESSAGE_ACTIONS ===",
                         "=== MESSAGE_HEADER ===", "=== MESSAGE_BODY ===",
                         "=== STATUSBAR ==="}
                    [] view_type = "compose" -> {}
                    [] OTHER ->
                        {"=== FOLDERS ===", "=== MESSAGE LIST ===", "=== PREVIEW ===",
                         "=== DASHBOARD CONTENT ==="})

PluginHeaders(p, view_type, has) ==
    CASE p = "gimp" -> GimpCompressor_build_output(has)
      [] p = "libreoffice_calc" -> CalcCompressor_build_output(has)
      [] p = "libreoffice_impress" -> ImpressCompressor_build_output(has)
      [] p = "libreoffice_writer" -> WriterCompressor_build_output(has)
      [] p = "os" -> OSCompressor_build_output(has)
      [] p = "thunderbird" -> ThunderbirdCompressor_build_output(view_type, has)

HdrStart == hplugin = "gimp" /\ hview = "unknown" /\ hhas = {} /\ hout = << >>

HdrInit == HdrStart /\ hpc = "ready"

HdrIdle == HdrStart /\ hpc = "idle"

\* one _build_output call of a plug-in
BuildHeaders ==
    /\ hpc = "ready"
    /\ \E p \in HeaderPlugins :
         \E view_type \in (IF p = "thunderbird" THEN ViewTypes ELSE {"unknown"}) :
            \E has \in SUBSET Conditions(p, view_type) :
                /\ hplugin' = p
                /\ hview' = view_type
                /\ hhas' = has
                /\ hout' = PluginHeaders(p, view_type, has)
    /\ hpc' = "built"
    /\ UNCHANGED outsideHdr

HdrNext == BuildHeaders

---------------------------------------------------------------------------
(* Claims about the order of the sections *)

ModalHeader == IF hplugin = "thunderbird" THEN "=== MODAL / DIALOG ===" ELSE "MODAL:"

\* the one order the section headers of a plug-in are written in
SectionOrder ==
    CASE hplugin = "gimp" ->
            <<"WINDOW_CONTROLS:", "APP_LAUNCHER:", "MENUBAR:", "TOOLBOX (Left Panel):",
              "CANVAS (Center):", "DOCKS (Right Panel):", "STATUSBAR:", "MODAL:">>
      [] hplugin = "libreoffice_calc" ->
            <<"APP_LAUNCHER:", "MENUBAR:", "TOOLBAR:", "SHEET:", "SHEET_TABS:",
              "STATUSBAR:", "MODAL:">>
      [] hplugin = "libreoffice_impress" ->
            <<"APP_LAUNCHER:", "STATUSBAR:", "MENUBAR:", "TOOLBAR:", "SLIDE_LIST:",
              "PROPERTIES:", "CONTENT:", "MODAL:">>
      [] hplugin = "libreoffice_writer" ->
            <<"APP_LAUNCHER:", "MENUBAR:", "TOOLBAR:", "SLIDE_LIST:", "STATUSBAR:",
              "PROPERTIES:", "CONTENT:", "MODAL:">>
      [] hplugin = "os" ->
            <<"APP_LAUNCHER:", "TOP_BAR:", "DESKTOP_ICONS:", "OS_POPUP:", "CONTENT:",
              "MODAL:">>
      [] hplugin = "thunderbird" ->
            <<"=== SYSTEM ===", "=== LAUNCHER ===", "=== TOOLBAR ===", "=== SPACES ===",
              "=== FOLDERS ===", "=== HOME DASHBOARD ===",
              "=== SETTINGS ===", "=== SETTINGS SIDEBAR ===", "=== SETTINGS MAIN ===",
              "=== SETTINGS (scroll down) ===", "=== SETTINGS (Fallback) ===",
              "=== ACCOUNT SETTINGS ===", "=== ACCOUNT SETTINGS SIDEBAR ===",
              "=== ACCOUNT SETTINGS MAIN ===", "=== ACCOUNT SETTINGS (scroll down) ===",
              "=== TABS ===", "=== ADDONS SIDENAV ===", "=== ADDONS TOOLBAR ===",
              "=== ADDONS CONTENT ===",
              "=== FOLDER_LIST ===", "=== MESSAGE_LIST_HEADER ===",
              "=== MESSAGE_LIST ===", "=== MESSAGE_ACTIONS ===",
              "=== MESSAGE_HEADER ===", "=== MESSAGE_BODY ===", "=== STATUSBAR ===",
              "=== COMPOSE MENUBAR ===", "\n=== COMPOSE ACTIONS ===",
              "\n=== COMPOSE FIELDS ===", "\n=== COMPOSE FORMATTING ===",
              "\n=== COMPOSE BODY ===",
              "=== MESSAGE LIST ===", "=== PREVIEW ===", "=== DASHBOARD CONTENT ===",
              "=== STATUS BAR ===", "=== MODAL / DIALOG ===">>

\* the place of a header in the order of its plug-in
Rank(h) == CHOOSE k \in 1..Len(SectionOrder) : SectionOrder[k] = h

\* C19: in the output of every plug-in's _build_output the modal header,
\* when there is one, is the last section header, and the section headers
\* follow one fixed order of the plug-in, whatever the input.
C19_ModalLast ==
    hpc = "built" =>
        /\ \A k \in 1..Len(hout) : hout[k] = ModalHeader => k = Len(hout)
        /\ Range(hout) \subseteq Range(SectionOrder)
        /\ \A j, k \in 1..Len(hout) : j < k => Rank(hout[j]) < Rank(hout[k])

C19_Witness ==
    /\ hpc = "built" /\ hplugin = "thunderbird" /\ hview = "mail"
    /\ Len(hout) >= 4
    /\ hout[Len(hout)] = ModalHeader
    /\ hout[Len(hout) - 1] = "=== STATUSBAR ==="

---------------------------------------------------------------------------
(* domains/os.py: the serializers of the regions.  A line is a record of  *)
(* its prefix, the quoted name and the centre.                            *)

OsLine(prefix, name, n) ==
    [prefix |-> prefix, name |-> name, cx |-> Center(n).cx, cy |-> Center(n).cy]

ByCenterY(n) == <<Center(n).cy, 0>>

ByCenterX(n) == <<Center(n).cx, 0>>

\* the nodes with a name that no node before them in the list has under the
\* same key: `if key in seen: continue`
RECURSIVE FirstOfKey(_, _, _)
FirstOfKey(ns, Key(_), seen) ==
    IF ns = << >> THEN << >>
    ELSE IF Label(Head(ns)) = << >> \/ Key(Head(ns)) \in seen
         THEN FirstOfKey(Tail(ns), Key, seen)
         ELSE <<Head(ns)>> \o FirstOfKey(Tail(ns), Key, seen \cup {Key(Head(ns))})

\* lines 463-487
_compress_app_launcher(ns) ==
    LET kept == FirstOfKey(SortedBy(ns, ByCenterY), Label, {})
    IN  [k \in 1..Len(kept) |-> OsLine("[launcher-app]", Label(kept[k]), kept[k])]

\* lines 510-522: the kind of a top-bar item
TopBarPrefix(n) ==
    LET name == Label(n)
        low == lower(name)
        AnyWord(ws) == \E w \in ws : HasWord(low, w)
    IN  IF HasWord(low, "activities") THEN "[top-activities]"
        ELSE IF AnyWord({"am", "pm", ":"}) /\ \E k \in 1..Len(name) : IsDigit(name[k])
        THEN "[top-clock]"
        ELSE IF AnyWord({"wifi", "wireless", "network"}) THEN "[top-network]"
        ELSE IF HasWord(low, "battery") THEN "[top-battery]"
        ELSE IF AnyWord({"sound", "volume", "speaker"}) THEN "[top-sound]"
        ELSE "[top-item]"

\* lines 489-531
_compress_top_bar(ns) ==
    LET key(n) == <<TopBarPrefix(n), Label(n)>>
        kept == FirstOfKey(SortedBy(ns, ByCenterX), key, {})
    IN  [k \in 1..Len(kept) |-> OsLine(TopBarPrefix(kept[k]), Label(kept[k]), kept[k])]

\* lines 533-562
_compress_desktop_icons(ns) ==
    LET kept == FirstOfKey(SortedBy(ns, ByCenterY), Label, {})
    IN  [k \in 1..Len(kept) |-> OsLine("[desktop-icon]", Label(kept[k]), kept[k])]

\* lines 566-593: every named node gives a line, nothing is remembered
_compress_os_popup(ns) ==
    LET Named(n) == Label(n) # << >>
        kept == Filter(ns, Named)
        prefix(n) ==
            IF Tag(n) \in {<<"entry">>, <<"textbox">>, <<"text">>} THEN "[os-popup-entry]"
            ELSE IF Tag(n) \in {<<"push-button">>, <<"toggle-button">>}
            THEN "[os-popup-btn]"
            ELSE "[os-popup-item]"
    IN  [k \in 1..Len(kept) |-> OsLine(prefix(kept[k]), Label(kept[k]), kept[k])]

\* lines 966-986: the line of a node of _format_node_list
NodeListLine(n) ==
    IF Tag(n) = <<"terminal">>
    THEN OsLine("[terminal]",
                Or(Or(strip(Str(n, "text")), Label(n)), <<"(terminal)">>), n)
    ELSE OsLine(
            IF Tag(n) \in {<<"push-button">>, <<"toggle-button">>} THEN "[btn]"
            ELSE IF Tag(n) \in {<<"check-box">>, <<"radio-button">>} THEN "[check]"
            ELSE IF Tag(n) \in {<<"entry">>, <<"text">>, <<"password-text">>}
            THEN "[input]"
            ELSE IF Tag(n) \in {<<"combo-box">>, <<"menu-button">>} THEN "[combo]"
            ELSE IF Tag(n) \in {<<"spin-button">>, <<"slider">>, <<"scroll-bar">>}
            THEN "[control]"
            ELSE "[text]",
            Label(n), n)

\* lines 938-988: the key is the name and the centre; a terminal is kept
\* without a name
RECURSIVE FormatNodes(_, _)
FormatNodes(ns, seen_keys) ==
    IF ns = << >> THEN << >>
    ELSE LET n == Head(ns)
             dedup_key == <<Label(n), Center(n)>>
         IN  IF (Label(n) = << >> /\ Tag(n) # <<"terminal">>) \/ dedup_key \in seen_keys
             THEN FormatNodes(Tail(ns), seen_keys)
             ELSE <<NodeListLine(n)>>
                  \o FormatNodes(Tail(ns), seen_keys \cup {dedup_key})

_format_node_list(ns) == FormatNodes(SortedBy(ns, ByCenterY), {})

---------------------------------------------------------------------------
(* domains/os.py: _detect_and_classify_nodes, for lists without a window  *)
(* anchor: no button named Close or Menu, fewer than two of the radio     *)
(* buttons Explore, Installed and Updates, and nothing named Source, Go   *)
(* back or Back.  Steps 2, 3, 3.5 and 3.6 then find no window and the     *)
(* sidebar box is not used.  A node is known by its position in the list, *)
(* as it is known by id() in the source.  Centres are kept doubled, the   *)
(* source computing x + w/2 in floating point.                            *)

MODAL_KEYWORDS ==
    {"authentication", "password", "required", "authenticate", "cancel"}

Cx2(n) == 2 * node_bbox_from_raw(n).x + node_bbox_from_raw(n).w

Cy2(n) == 2 * node_bbox_from_raw(n).y + node_bbox_from_raw(n).h

Area(n) == node_bbox_from_raw(n).w * node_bbox_from_raw(n).h

HasModalKeyword(str) == \E kw \in MODAL_KEYWORDS : HasWord(str, kw)

\* lines 622-629: a panel without text over more than 30% of 1920 x 1080
DimCandidate(n) ==
    /\ 10 * Area(n) > 3 * 1920 * 1080
    /\ StrLen(strip(Or(Str(n, "text"), Str(n, "name")))) < 3
    /\ Tag(n) \in {<<"panel">>, <<"frame">>, <<"image">>, <<"static">>, <<"text">>}

\* the position of the first one, 0 when there is none
DimLayer(ns) ==
    IF \E k \in 1..Len(ns) : DimCandidate(ns[k])
    THEN CHOOSE k \in 1..Len(ns) :
            DimCandidate(ns[k]) /\ \A j \in 1..(k - 1) : ~DimCandidate(ns[j])
    ELSE 0

\* line 660: the nodes whose name holds a keyword, in list order
Triggers(ns) ==
    {k \in 1..Len(ns) : HasModalKeyword(lower(Str(ns[k], "name")))}

\* lines 663-672: within 500 px and 400 px of the centre of the reference
NearTrigger(n, ref) ==
    /\ Abs(Cx2(n) - Cx2(ref)) < 2 * 500
    /\ Abs(Cy2(n) - Cy2(ref)) < 2 * 400

\* lines 617-676 (step 0): the nodes around the first keyword node when
\* there is a dimming layer, and the positions marked as used
EarlyModal(ns) ==
    LET dim == DimLayer(ns)
        has_modal_keyword ==
            \E k \in 1..Len(ns) :
                /\ ns[k] # ns[dim]
                /\ HasModalKeyword(lower(Label(ns[k])))
    IN  IF dim = 0 \/ ~has_modal_keyword \/ Triggers(ns) = {}
        THEN [modal |-> << >>, used |-> {}]
        ELSE LET ref == ns[SetMin(Triggers(ns))]
                 near == SelectSeq([k \in 1..Len(ns) |-> k],
                                   LAMBDA k : NearTrigger(ns[k], ref))
             IN  [modal |-> near, used |-> Range(near) \cup {dim}]

\* lines 848-861 (step 4): the window of a terminal that no window holds
TerminalWindow(ns, k) ==
    LET t_box == node_bbox_from_raw(ns[k])
    IN  [title |-> "Terminal",
         limit_max_x |-> t_box.x + t_box.w, limit_min_x |-> t_box.x,
         header_y |-> t_box.y - 40, header_bottom |-> t_box.y,
         header_nodes |-> << >>, content_nodes |-> <<k>>]

\* lines 863-884 (step 5): the window a free node goes to, 0 for none; the score is
\* kept doubled, and the first window of the least score wins
BestWindow(n, windows) ==
    LET fits(w) ==
            /\ ~(Cx2(n) > 2 * (w.limit_max_x + 50))
            /\ ~(Cx2(n) < 2 * (w.limit_min_x - 50))
            /\ ~(Cy2(n) - 2 * w.header_bottom < 0 - 20)
        horizontal_pen(w) ==
            IF Cx2(n) < 2 * w.limit_min_x THEN 2 * w.limit_min_x - Cx2(n)
            ELSE IF Cx2(n) > 2 * w.limit_max_x THEN Cx2(n) - 2 * w.limit_max_x
            ELSE 0
        score(w) == (Cy2(n) - 2 * w.header_bottom) + horizontal_pen(w) * 5
        cands == {j \in 1..Len(windows) : fits(windows[j])}
    IN  IF cands = {} THEN 0
        ELSE CHOOSE j \in cands :
                \A i \in cands :
                    \/ score(windows[j]) < score(windows[i])
                    \/ score(windows[j]) = score(windows[i]) /\ j <= i

OsHeader(text) == [prefix |-> text, name |-> << >>, cx |-> 0, cy |-> 0]

\* lines 886-918 (step 6): the free nodes are modal when one of them is a
\* large panel without text or has the role dialog
is_likely_modal(ns, orphans) ==
    \/ \E j \in 1..Len(orphans) :
          /\ Area(ns[orphans[j]]) > 500000
          /\ StrLen(strip(Str(ns[orphans[j]], "text"))) < 3
    \/ \E j \in 1..Len(orphans) : Str(ns[orphans[j]], "role") = <<"dialog">>

\* lines 604-934
_detect_and_classify_nodes(ns) ==
    IF ns = << >> THEN [content_lines |-> << >>, true_modal_nodes |-> << >>]
    ELSE
    The({
    The({
    The({
    The({
    The({
        LET Nodes(ids) == [j \in 1..Len(ids) |-> ns[ids[j]]]
            WindowLines(w) ==
                <<OsHeader("=== Window: Terminal ===")>>
                \o _format_node_list(Nodes(w.header_nodes \o w.content_nodes))
                \o <<OsHeader("")>>
            RECURSIVE AllWindowLines(_)
            AllWindowLines(j) ==
                IF j > Len(sorted) THEN << >>
                ELSE WindowLines(filled[sorted[j][3]]) \o AllWindowLines(j + 1)
            modal == orphans # << >> /\ is_likely_modal(ns, orphans)
        IN  [content_lines |->
                AllWindowLines(1)
                \o (IF orphans # << >> /\ ~modal
                    THEN (IF filled # << >>
                          THEN <<OsHeader("=== Background / Other ===")>>
                          ELSE << >>)
                         \o _format_node_list(Nodes(orphans))
                    ELSE << >>),
             \* line 888: the list of step 0 is begun anew
             true_modal_nodes |-> IF modal THEN orphans ELSE << >>]
        : sorted \in {Sorted({<<filled[j].header_y, filled[j].limit_min_x, j>> :
                                j \in 1..Len(filled)})} })
        : filled \in {[j \in 1..Len(windows) |->
                        [windows[j] EXCEPT !.content_nodes =
                            @ \o SelectSeq(free,
                                  LAMBDA k : BestWindow(ns[k], windows) = j)]]},
          orphans \in {SelectSeq(free, LAMBDA k : BestWindow(ns[k], windows) = 0)} })
        : free \in {SelectSeq([k \in 1..Len(ns) |-> k],
                              LAMBDA k : k \notin early.used
                                         /\ Tag(ns[k]) # <<"terminal">>)},
          windows \in {[j \in 1..Len(terminals) |->
                          TerminalWindow(ns, terminals[j])]} })
        : terminals \in {SelectSeq([k \in 1..Len(ns) |-> k],
                                   LAMBDA k : Tag(ns[k]) = <<"terminal">>
                                              /\ k \notin early.used)} })
        : early \in {EarlyModal(ns)} })

Serializers ==
    {"_compress_app_launcher", "_compress_top_bar", "_compress_desktop_icons",
     "_compress_os_popup", "_format_node_list"}

Serialize(f, ns) ==
    CASE f = "_compress_app_launcher" -> _compress_app_launcher(ns)
      [] f = "_compress_top_bar" -> _compress_top_bar(ns)
      [] f = "_compress_desktop_icons" -> _compress_desktop_icons(ns)
      [] f = "_compress_os_popup" -> _compress_os_popup(ns)
      [] f = "_format_node_list" -> _format_node_list(ns)

\* the nodes a region of the desktop is built from
OsInputs ==
    <<ENode("push-button", <<"Files">>, << >>, << >>, 0, 300, 60, 60),
      ENode("label", << >>, <<"Files">>, << >>, 0, 300, 60, 60),
      ENode("label", <<"Activities">>, << >>, << >>, 0, 0, 100, 30),
      ENode("label", <<"10", ":", "10", " ", "AM">>, << >>, << >>, 900, 0, 100, 30),
      ENode("entry", <<"Rename">>, << >>, << >>, 500, 200, 200, 30),
      ENode("push-button", <<"OK">>, << >>, << >>, 600, 600, 80, 30),
      ENode("static", << >>, << >>, << >>, 10, 10, 10, 10),
      ENode("terminal", << >>, << >>, << >>, 300, 400, 400, 300),
      ENode("static", << >>, << >>, << >>, 0, 0, 1920, 1080),
      ENode("label", <<"Authentication", " ", "Required">>, << >>, << >>,
            760, 400, 400, 40)>>

OsStart ==
    /\ oser = "_format_node_list"
    /\ onodes = << >>
    /\ olines = << >>
    /\ oagain = << >>
    /\ omodal = << >>

OsInit == OsStart /\ opc = "build"

OsIdle == OsStart /\ opc = "idle"

\* the caller puts one more node in the region
AddOsNode ==
    /\ opc = "build"
    /\ Len(onodes) < MaxItems
    /\ \E k \in 1..Len(OsInputs) : onodes' = Append(onodes, OsInputs[k])
    /\ UNCHANGED <<oser, olines, oagain, omodal, opc>>
    /\ UNCHANGED outsideOs

\* the region is serialized; the serializers work on sorted(nodes) or read
\* the list, so the list is as it was
SerializeRegion ==
    /\ opc = "build"
    /\ \E f \in Serializers :
         /\ oser' = f
         /\ olines' = Serialize(f, onodes)
    /\ opc' = "once"
    /\ UNCHANGED <<onodes, oagain, omodal>>
    /\ UNCHANGED outsideOs

\* the same list is serialized a second time
SerializeAgain ==
    /\ opc = "once"
    /\ oagain' = Serialize(oser, onodes)
    /\ opc' = "twice"
    /\ UNCHANGED <<oser, onodes, olines, omodal>>
    /\ UNCHANGED outsideOs

\* the list is classified into the lines of the windows and the modal list
DetectAndClassify ==
    /\ opc = "build"
    /\ \E r \in {_detect_and_classify_nodes(onodes)} :
         /\ olines' = r.content_lines
         /\ omodal' = r.true_modal_nodes
    /\ oser' = "_detect_and_classify_nodes"
    /\ opc' = "classified"
    /\ UNCHANGED <<onodes, oagain>>
    /\ UNCHANGED outsideOs

OsNext == AddOsNode \/ SerializeRegion \/ SerializeAgain \/ DetectAndClassify

---------------------------------------------------------------------------
(* Claims about the serializers of the OS plug-in *)

NoLineTwice(ls) == \A j, k \in 1..Len(ls) : ls[j] = ls[k] => j = k

\* C20 as stated: a serializer of the OS plug-in gives the same lines for
\* the same list when called twice, and no line twice in one result.
C20_AsStated ==
    /\ opc \in {"once", "twice"} => NoLineTwice(olines)
    /\ opc = "twice" => oagain = olines /\ NoLineTwice(oagain)

\* the list just classified has a dimming layer and a node whose name
\* holds a modal keyword
DimmedKeywordCase ==
    /\ opc = "classified"
    /\ \E k \in 1..Len(onodes) : DimCandidate(onodes[k])
    /\ \E k \in 1..Len(onodes) :
          \E kw \in MODAL_KEYWORDS : HasWord(lower(Str(onodes[k], "name")), kw)

FirstKeywordMatch ==
    onodes[CHOOSE k \in 1..Len(onodes) :
              /\ \E kw \in MODAL_KEYWORDS : HasWord(lower(Str(onodes[k], "name")), kw)
              /\ \A j \in 1..(k - 1) :
                    ~\E kw \in MODAL_KEYWORDS :
                        HasWord(lower(Str(onodes[j], "name")), kw)]

FirstDimLayer ==
    CHOOSE k \in 1..Len(onodes) :
        DimCandidate(onodes[k]) /\ \A j \in 1..(k - 1) : ~DimCandidate(onodes[j])

\* C25 as stated: with a dimming layer and a keyword match, every node whose
\* centre is within 500 px across and 400 px down of the first keyword match
\* is in the returned modal list, and the dimming layer is neither in that
\* list nor in the content lines.
C25_AsStated ==
    DimmedKeywordCase =>
        /\ \A k \in 1..Len(onodes) :
              (/\ k # FirstDimLayer
               /\ Abs(Cx2(onodes[k]) - Cx2(FirstKeywordMatch)) < 1000
               /\ Abs(Cy2(onodes[k]) - Cy2(FirstKeywordMatch)) < 800)
              => k \in Range(omodal)
        /\ FirstDimLayer \notin Range(omodal)
        /\ NodeListLine(onodes[FirstDimLayer]) \notin Range(olines)

---------------------------------------------------------------------------
(* domains/gimp.py and domains/thunderbird.py: get_semantic_regions.  The  *)
(* products w * 0.05, h * 0.10, ... of the source are compared exactly, as *)
(* fractions; the inputs keep clear of the values where rounding of the    *)
(* floating-point product could change a comparison.                       *)

MENU_KEYWORDS ==
    {"file", "edit", "select", "view", "image", "layer",
     "colors", "tools", "filters", "windows", "help"}

\* gimp.py line 114: the names of the buttons of a dialog
DialogButtonNames ==
    {<<"ok">>, <<"cancel">>, <<"reset">>, <<"close">>, <<"help">>,
     Phrase(<<"discard", "changes">>)}

GimpRegionKeys ==
    {"MENUBAR", "APP_LAUNCHER", "TOOLBOX", "DOCKS", "CANVAS", "STATUSBAR", "MODAL"}

\* gimp.py lines 84-139: the body of the loop, for one node
GimpRegion(n, w, h) ==
    LET bbox == node_bbox_from_raw(n)
        c == bbox_to_center_tuple(bbox)
        tag == Tag(n)
        role == lower(Str(n, "role"))
        name_lower == lower(Label(n))
        is_dialog ==
            \/ role \in {<<"dialog">>, <<"alert">>, <<"window">>}
            \/ tag \in {<<"window">>, <<"dialog">>}
            \/ tag = <<"push-button">> /\ name_lower \in DialogButtonNames
    IN  IF /\ bbox.x * 100 < w * 5 /\ bbox.w * 100 < w * 6 /\ bbox.h > 30
           /\ tag \in {<<"push-button">>, <<"toggle-button">>}
        THEN "APP_LAUNCHER"
        ELSE IF tag = <<"launcher-app">> THEN "APP_LAUNCHER"
        ELSE IF /\ c.cy * 10 < h
                /\ \/ tag = <<"menu">>
                   \/ Len(name_lower) = 1 /\ name_lower[1] \in MENU_KEYWORDS
        THEN "MENUBAR"
        ELSE IF is_dialog THEN "CANVAS"
        ELSE IF c.cy * 100 > h * 95 THEN "STATUSBAR"
        ELSE IF c.cx * 100 < w * 22 THEN "TOOLBOX"
        ELSE IF c.cx * 100 > w * 78 THEN "DOCKS"
        ELSE "CANVAS"

\* GimpCompressor.get_semantic_regions, gimp.py lines 64-141: the regions,
\* lists of node indices
GimpCompressor_get_semantic_regions(N, w, h) ==
    [key \in GimpRegionKeys |->
        LET In(i) == GimpRegion(N[i], w, h) = key
        IN  Filter([i \in 1..Len(N) |-> i], In)]

\* thunderbird.py lines 18-21
TB_MODAL_KEYWORDS ==
    {Phrase(<<"save", "as">>), <<"print">>, <<"password">>, <<"alert">>,
     <<"confirm">>}

\* thunderbird.py lines 24-38
DASHBOARD_KEYWORDS ==
    {Phrase(<<"read", "messages">>), Phrase(<<"write", "a", "new", "message">>),
     Phrase(<<"search", "messages">>), Phrase(<<"manage", "message", "filters">>),
     Phrase(<<"set", "up", "another", "account">>),
     Phrase(<<"import", "from", "another", "program">>),
     Phrase(<<"create", "a", "new", "calendar">>),
     Phrase(<<"create", "a", "new", "address", "book">>),
     Phrase(<<"connect", "to", "your", "existing", "email", "account">>),
     Phrase(<<"connect", "to", "your", "chat", "account">>),
     Phrase(<<"set", "up", "filelink">>), Phrase(<<"connect", "to", "feeds">>),
     Phrase(<<"connect", "to", "a", "newsgroup">>),
     Phrase(<<"import", "data", "from", "other", "programs">>),
     <<"end-to-end", " ", "encryption">>, Phrase(<<"explore", "features">>),
     Phrase(<<"make", "a", "donation">>), <<"support">>,
     Phrase(<<"get", "involved">>), Phrase(<<"developer", "documentation">>)}

\* thunderbird.py line 121: the names that are status texts wherever they are
StatusNames ==
    {Phrase(<<"You", "are", "currently", "online.">>), <<"Done">>,
     <<"Unread:">>, <<"Total:">>}

ThunderbirdRegionKeys ==
    {"APP_LAUNCHER", "TOP_BAR", "SPACES_BAR", "TOOLBAR", "SIDEBAR_HEADER",
     "SIDEBAR", "MESSAGE_LIST", "PREVIEW", "DASHBOARD", "MODAL", "STATUSBAR",
     "CONTENT", "FOLDER_TREE", "HOME_DASHBOARD", "MAIL_TOOLBAR"}

\* thunderbird.py lines 80-87: the constants of the partition
TOP_BAR_MAX_Y == 50

SPACES_BAR_MAX_X == 115

SPLIT_SIDEBAR_X == 400

TB_TOOLBAR_BOTTOM_Y == 100

SIDEBAR_HEADER_BOTTOM_Y == 150

BOTTOM_AREA_Y == 1060

\* thunderbird.py lines 89-158: the body of the loop, for one node;
\* has_dashboard is the truth of regions["HOME_DASHBOARD"] when the node's
\* turn comes
ThunderbirdRegion(n, w, h, has_dashboard) ==
    LET bbox == node_bbox_from_raw(n)
        c == bbox_to_center_tuple(bbox)
        tag == Tag(n)
        role == lower(Str(n, "role"))
        name == Label(n)
        name_lower == lower(name)
        is_control ==
            tag \in {<<"push-button">>, <<"toggle-button">>, <<"link">>,
                     <<"menu-item">>, <<"menu">>}
    IN  IF \/ role \in {<<"dialog">>, <<"alert">>}
           \/ ~is_control /\ \E k \in TB_MODAL_KEYWORDS : contains(name_lower, k)
        THEN "MODAL"
        ELSE IF /\ bbox.x * 100 < w * 5 /\ bbox.h > 32 /\ bbox.w * 100 < w * 12
                /\ tag \in {<<"push-button">>, <<"toggle-button">>,
                            <<"launcher-app">>}
        THEN "APP_LAUNCHER"
        ELSE IF c.cy < TOP_BAR_MAX_Y THEN "TOP_BAR"
        ELSE IF name \in StatusNames THEN "STATUSBAR"
        ELSE IF c.cy > BOTTOM_AREA_Y /\ c.cy < 1080 THEN "STATUSBAR"
        ELSE IF c.cx < SPACES_BAR_MAX_X /\ bbox.w < 60 THEN "SPACES_BAR"
        ELSE IF SPACES_BAR_MAX_X <= c.cx /\ c.cx < SPLIT_SIDEBAR_X
        THEN IF c.cy < SIDEBAR_HEADER_BOTTOM_Y THEN "SIDEBAR_HEADER"
             ELSE "FOLDER_TREE"
        ELSE IF c.cy < TB_TOOLBAR_BOTTOM_Y THEN "TOOLBAR"
        ELSE IF \/ \E k \in DASHBOARD_KEYWORDS : contains(name_lower, k)
                \/ name_lower \in {Phrase(<<"address", "book">>),
                                   Phrase(<<"account", "settings">>),
                                   <<"settings">>}
        THEN "HOME_DASHBOARD"
        ELSE IF c.cx * 100 < w * 55
        THEN IF /\ has_dashboard
                /\ tag \in {<<"heading">>, <<"paragraph">>, <<"label">>}
                /\ bbox.h > 20
             THEN "HOME_DASHBOARD"
             ELSE "MESSAGE_LIST"
        ELSE IF /\ has_dashboard
                /\ tag \in {<<"heading">>, <<"paragraph">>, <<"label">>,
                            <<"link">>}
        THEN "HOME_DASHBOARD"
        ELSE "PREVIEW"

\* the loop of lines 89-158: the key of the region of each node, in turn
RECURSIVE ThunderbirdKeys(_, _, _)
ThunderbirdKeys(N, w, h) ==
    IF N = << >> THEN << >>
    ELSE The({Append(before,
                     ThunderbirdRegion(N[Len(N)], w, h,
                                       "HOME_DASHBOARD" \in Range(before))) :
              before \in {ThunderbirdKeys(SubSeq(N, 1, Len(N) - 1), w, h)}})

\* ThunderbirdCompressor.get_semantic_regions, thunderbird.py lines 58-160
ThunderbirdCompressor_get_semantic_regions(N, w, h) ==
    The({[key \in ThunderbirdRegionKeys |->
            LET In(i) == keys[i] = key
            IN  Filter([i \in 1..Len(N) |-> i], In)] :
         keys \in {ThunderbirdKeys(N, w, h)}})

---------------------------------------------------------------------------
(* One screen at two resolutions *)

\* the nodes a GIMP or Thunderbird screen is built from
RegionInputs ==
    << ENode("push-button", Phrase(<<"Files">>), << >>, << >>, 0, 300, 60, 20),
       ENode("toggle-button", Phrase(<<"Files">>), << >>, << >>, 0, 400, 60, 60),
       ENode("menu", Phrase(<<"File">>), << >>, << >>, 10, 30, 40, 20),
       ENode("push-button", Phrase(<<"OK">>), << >>, << >>, 900, 500, 60, 30),
       ENode("label", Phrase(<<"Password">>), << >>, << >>, 800, 400, 200, 40),
       ENode("static", Phrase(<<"Done">>), << >>, << >>, 500, 1040, 200, 20),
       ENode("table-cell", Phrase(<<"Layer">>), << >>, << >>, 1600, 300, 200, 20),
       ENode("tree-item", Phrase(<<"Inbox">>), << >>, << >>, 150, 300, 200, 20),
       ENode("link", Phrase(<<"Settings">>), << >>, << >>, 600, 200, 100, 20),
       ENode("label", << >>, Phrase(<<"Home">>), << >>, 600, 300, 100, 40) >>

\* the node on a screen f times as wide and as high
Scaled(n, f) ==
    [n EXCEPT !.bbox = [x |-> f * n.bbox.x, y |-> f * n.bbox.y,
                        w |-> f * n.bbox.w, h |-> f * n.bbox.h]]

\* the key of the region each node is in
AssignedRegions(plug, N, w, h) ==
    The({[i \in 1..Len(N) |->
            CHOOSE key \in DOMAIN regions : i \in Range(regions[key])] :
         regions \in {IF plug = "gimp"
                      THEN GimpCompressor_get_semantic_regions(N, w, h)
                      ELSE ThunderbirdCompressor_get_semantic_regions(N, w, h)}})

RegStart ==
    /\ rscreen = Screens[1]
    /\ rnodes = << >>
    /\ rbase = << >>
    /\ rfactor = 1
    /\ rscaled = << >>

RegInit == RegStart /\ rplugin \in {"gimp", "thunderbird"} /\ rpc = "build"

RegIdle == RegStart /\ rplugin = "gimp" /\ rpc = "idle"

AddRegionNode ==
    /\ rpc = "build"
    /\ Len(rnodes) < MaxScaled
    /\ \E k \in 1..Len(RegionInputs) : rnodes' = Append(rnodes, RegionInputs[k])
    /\ UNCHANGED <<rplugin, rscreen, rbase, rfactor, rscaled, rpc>>
    /\ UNCHANGED outsideReg

\* get_semantic_regions(nodes, w, h)
GetSemanticRegions ==
    /\ rpc = "build"
    /\ rnodes # << >>
    /\ rbase' = AssignedRegions(rplugin, rnodes, rscreen.w, rscreen.h)
    /\ rpc' = "called"
    /\ UNCHANGED <<rplugin, rscreen, rnodes, rfactor, rscaled>>
    /\ UNCHANGED outsideReg

\* get_semantic_regions on the same screen, every length multiplied by f
GetSemanticRegionsScaled ==
    /\ rpc = "called"
    /\ \E f \in 1..MaxFactor :
         /\ rfactor' = f
         /\ rscaled' = AssignedRegions(rplugin,
                                       [i \in 1..Len(rnodes) |-> Scaled(rnodes[i], f)],
                                       f * rscreen.w, f * rscreen.h)
    /\ rpc' = "scaled"
    /\ UNCHANGED <<rplugin, rscreen, rnodes, rbase>>
    /\ UNCHANGED outsideReg

RegNext == AddRegionNode \/ GetSemanticRegions \/ GetSemanticRegionsScaled

---------------------------------------------------------------------------
(* Claims about the partition at two resolutions *)

\* C28: as stated, the region get_semantic_regions of the GIMP and of the
\* Thunderbird plug-in gives a node is the same on the screen as given and
\* on the screen with every position and size multiplied by the same
\* positive integer.
C28_AsStated == rpc = "scaled" => rscaled = rbase

---------------------------------------------------------------------------
(* domain_detector.py: the geometry helpers, called on raws of all shapes *)

Padded(col) == <<" ">> \o col

Minus == <<"(", "-", "10", ",", " ", "2", ")">>

\* the raws the helpers are called with
RawInputs ==
    << Row(<< <<"push-button">>, <<"OK">>, << >>, << >>, << >>, XY, WH >>),
       Row(<< <<"push-button">>, <<"OK">>, << >>, << >>, << >>, XY >>),
       Row(<< <<"push-button">>, <<"OK">>, << >>, << >>, << >>, Padded(XY) >>),
       Row(<< <<"push-button">>, <<"OK">>, << >>, << >>, << >>, Padded(XY), WH >>),
       Row(<< <<"push-button">>, <<"OK">>, << >>, << >>, << >> >>),
       << >>,
       Row(<< <<"label">>, <<"a">>, << >>, << >>, << >>,
              <<"(", "a", ",", "b", ")">>, WH >>),
       Row(<< <<"label">>, <<"a">>, << >>, << >>, << >>,
              <<"(", "1", ",", "2", ",", "10", ")">>, WH >>),
       Row(<< <<"label">>, <<"a">>, << >>, << >>, << >>, Minus, XY >>),
       Row(<< <<"label">>, <<"a">>, << >>, << >>, << >>, << >>, WH >>),
       Row(<< <<"label">>, <<"a">>, << >>, << >>, << >>,
              <<"(", "1", ",", ")">>, <<"(", "10", ",", "b", ")">> >>),
       Row(<< <<"label">>, <<"a">>, << >>, << >>, << >>, <<"(", "1", ",", "2">> >>),
       Row(<< <<"label">>, XY, << >>, << >>, << >>, <<"a">>, Minus >>) >>

GeoStart == graws = << >> /\ gxy = << >> /\ gsize = << >>

GeoInit == GeoStart /\ gpc = "ready"

GeoIdle == GeoStart /\ gpc = "idle"

\* _extract_xy_from_raw(raw)
ExtractXY ==
    /\ gpc = "ready"
    /\ Len(graws) < MaxRaws
    /\ \E k \in 1..Len(RawInputs) :
         /\ graws' = Append(graws, RawInputs[k])
         /\ gxy' = Append(gxy, _extract_xy_from_raw(RawInputs[k]))
    /\ UNCHANGED <<gsize, gpc>>
    /\ UNCHANGED outsideGeo

\* _estimate_screen_size(nodes), the nodes having the raws seen so far
EstimateScreenSize ==
    /\ gpc = "ready"
    /\ gsize' = <<_estimate_screen_size([i \in 1..Len(graws) |-> [raw |-> graws[i]]])>>
    /\ gpc' = "estimated"
    /\ UNCHANGED <<graws, gxy>>
    /\ UNCHANGED outsideGeo

GeoNext == ExtractXY \/ EstimateScreenSize

---------------------------------------------------------------------------
(* Claims about the geometry helpers (checked under SpecGeometry) *)

\* the 6th tab column of raw, empty when raw has fewer columns
SixthColumn(raw) ==
    IF Len(split(raw, "\t")) >= 6 THEN split(raw, "\t")[6] ELSE << >>

\* col is "(" int "," int ")"
IsIntPair(col) ==
    /\ Parenthesised(col)
    /\ LET xy == split(SubSeq(col, 2, Len(col) - 1), ",")
       IN  Len(xy) = 2 /\ int(xy[1]).ok /\ int(xy[2]).ok

\* the pair col holds, (0, 0) when it holds none
PairOrOrigin(col) ==
    IF IsIntPair(col)
    THEN LET xy == split(SubSeq(col, 2, Len(col) - 1), ",")
         IN  <<int(xy[1]).val, int(xy[2]).val>>
    ELSE <<0, 0>>

ReturnedXY(i) == <<gxy[i].x, gxy[i].y>>

NoCallRaised ==
    /\ \A i \in 1..Len(gxy) : ~gxy[i].raised
    /\ gsize # << >> => ~gsize[1].raised

\* the size is positive, and the default when no raw has a parenthesis
SizePositive ==
    gsize # << >> =>
        /\ gsize[1].w > 0 /\ gsize[1].h > 0
        /\ (\A i \in 1..Len(graws) : ~contains(graws[i], <<"(">>))
               => gsize[1].w = 1920 /\ gsize[1].h = 1080

\* C29: as stated, _extract_xy_from_raw returns the pair of the 6th column
\* when that column is a parenthesised pair of integers and (0, 0)
\* otherwise -- the column being taken as it stands in every call, or
\* without the blanks around it in every call -- nothing raises, and the
\* estimated size is positive and 1920 x 1080 without geometry.
C29_AsStated ==
    /\ NoCallRaised
    /\ \/ \A i \in 1..Len(gxy) : ReturnedXY(i) = PairOrOrigin(SixthColumn(graws[i]))
       \/ \A i \in 1..Len(gxy) :
            ReturnedXY(i) = PairOrOrigin(strip(SixthColumn(graws[i])))
    /\ SizePositive

\* C29 (amended): _extract_xy_from_raw returns the pair of the 6th column,
\* blanks around it set aside, when raw has a tab followed at once by "("
\* and (0, 0) otherwise; nothing raises; the estimated size is positive and
\* 1920 x 1080 without geometry.
C29_GeometryDefaults ==
    /\ NoCallRaised
    /\ \A i \in 1..Len(gxy) :
         ReturnedXY(i) = IF contains(graws[i], <<"\t", "(">>)
                       THEN PairOrOrigin(strip(SixthColumn(graws[i])))
                       ELSE <<0, 0>>
    /\ SizePositive

\* a padded pair was read and another was not, a malformed pair gave the
\* origin, and a size was estimated from the geometry of the raws
C29_Witness ==
    /\ gpc = "estimated"
    /\ \E i \in 1..Len(gxy) :
         /\ IsIntPair(strip(SixthColumn(graws[i]))) /\ ReturnedXY(i) = <<0, 0>>
    /\ \E i \in 1..Len(gxy) : ExtractXYBody(graws[i]).raised
    /\ gsize[1].w # 1920

---------------------------------------------------------------------------
(* Claims about the coordinates parse_raw_a11y takes from a later row     *)
(* (checked under SpecParse)                                              *)

\* the first coordinate column of a row, << >> when the row has none
FirstPair(line) ==
    IF coord_cols(split(line, "\t")) = << >> THEN << >>
    ELSE coord_cols(split(line, "\t"))[1]

\* the step folds a continuation row with a coordinate column into the
\* last Element
LateContinuation == ContinuationStep /\ FirstPair(lines'[Len(lines')]) # << >>

\* the step merges the pending paragraph row with a row that has a
\* coordinate column, and emits the merged Element
LateMerge ==
    /\ pc = "loop"
    /\ pc' = "loop"
    /\ Len(hist') = Len(hist) + 1
    /\ hist'[Len(hist')].pend = "merge"
    /\ Len(nodes') = Len(nodes) + 1
    /\ FirstPair(lines'[Len(lines')]) # << >>

\* raw before and after the step, and what the step added after a tab
RawBefore == IF LateMerge THEN pending_para_line[1] ELSE OwnerBefore.raw

RawAfter == IF LateMerge THEN nodes'[Len(nodes')].raw ELSE OwnerAfter.raw

Attached ==
    IF LateMerge THEN strip(lines'[Len(lines')])
    ELSE join(TAB, coord_cols(split(lines'[Len(lines')], "\t")))

\* the pair of the later row
LatePair == PairOrOrigin(FirstPair(lines'[Len(lines')]))

\* the number of tab columns that stand before the first pair of added,
\* in before followed by a tab and added
ColumnsBefore(before, added) ==
    The({Len(split(before, "\t"))
           + (CHOOSE i \in 1..Len(cols) :
                 /\ COORD_RE_match(cols[i])
                 /\ \A j \in 1..(i - 1) : ~COORD_RE_match(cols[j])) - 1 :
         cols \in {[i \in 1..Len(split(added, "\t")) |->
                      strip(split(added, "\t")[i])]}})

\* what _extract_xy_from_raw returns for raw
Recovered(raw) ==
    The({<<r.x, r.y>> : r \in {_extract_xy_from_raw(raw)}})

---------------------------------------------------------------------------
(* The specifications *)

\* one component runs at a time; the others stay idle
InitParse ==
    ParseInit /\ ScoreIdle /\ EngineIdle /\ TbIdle /\ HdrIdle /\ OsIdle /\ RegIdle
    /\ GeoIdle

InitScore ==
    ParseIdle /\ ScoreInit /\ EngineIdle /\ TbIdle /\ HdrIdle /\ OsIdle /\ RegIdle
    /\ GeoIdle

InitEngine ==
    ParseIdle /\ ScoreIdle /\ EngineInit /\ TbIdle /\ HdrIdle /\ OsIdle /\ RegIdle
    /\ GeoIdle

InitTb ==
    ParseIdle /\ ScoreIdle /\ EngineIdle /\ TbInit /\ HdrIdle /\ OsIdle /\ RegIdle
    /\ GeoIdle

InitHdr ==
    ParseIdle /\ ScoreIdle /\ EngineIdle /\ TbIdle /\ HdrInit /\ OsIdle /\ RegIdle
    /\ GeoIdle

InitOs ==
    ParseIdle /\ ScoreIdle /\ EngineIdle /\ TbIdle /\ HdrIdle /\ OsInit /\ RegIdle
    /\ GeoIdle

InitReg ==
    ParseIdle /\ ScoreIdle /\ EngineIdle /\ TbIdle /\ HdrIdle /\ OsIdle /\ RegInit
    /\ GeoIdle

InitGeo ==
    ParseIdle /\ ScoreIdle /\ EngineIdle /\ TbIdle /\ HdrIdle /\ OsIdle /\ RegIdle
    /\ GeoInit

Init ==
    \/ InitParse \/ InitScore \/ InitEngine \/ InitTb \/ InitHdr \/ InitOs
    \/ InitReg \/ InitGeo

Next ==
    \/ ParseNext \/ ScoreNext \/ EngineNext \/ TbNext \/ HdrNext \/ OsNext
    \/ RegNext \/ GeoNext

Spec == Init /\ [][Next]_vars

SpecParse == InitParse /\ [][ParseNext]_vars

SpecScore == InitScore /\ [][ScoreNext]_vars

SpecEngine == InitEngine /\ [][EngineNext]_vars

SpecThunderbird == InitTb /\ [][TbNext]_vars

SpecHeaders == InitHdr /\ [][HdrNext]_vars

SpecOsSerializers == InitOs /\ [][OsNext]_vars

SpecRegions == InitReg /\ [][RegNext]_vars

SpecGeometry == InitGeo /\ [][GeoNext]_vars
=============================================================================
